---- MODULE Spec2Model ----
(***************************************************************************)
(* Model of the cv-dashboard repository: the four dashboard components     *)
(* (the paginated client-side Dashboard of part_001, the view-backed       *)
(* Dashboard of part_002, the three-view Dashboard of                      *)
(* components/Dashboard.tsx and the HomePage of app/page.tsx), the data    *)
(* store they query, and the record classifiers.                           *)
(*                                                                         *)
(* A component is a React function component: its state is the useState    *)
(* cells, an async function runs from one await to the next as one atomic  *)
(* step, and a useEffect runs right after the render that changed one of   *)
(* its dependencies.                                                       *)
(***************************************************************************)
EXTENDS Integers, Sequences, FiniteSets, TLC

VARIABLES
  variant,        \* which component is mounted
  store,          \* data store: number of candidate records per lot
  lot,            \* the lot prop of the component
  tab,            \* part_001 / part_002: useState tab
  activeTab,      \* Dashboard.tsx / page.tsx: useState activeTab
  loading,        \* useState loading
  errorMsg,       \* useState errorMsg (Null or Some(message))
  rows,           \* part_001 / part_002: useState rows
  allCandidates,  \* Dashboard.tsx / page.tsx: useState allCandidates
  profilCible,    \* Dashboard.tsx / page.tsx: useState profilCible
  cvAnglais,      \* Dashboard.tsx / page.tsx: useState cvAnglais
  search,         \* part_001: useState search
  profileFilter,  \* part_001: useState profileFilter
  hideUnusable,   \* part_001: useState hideUnusable
  sortKey,        \* part_001: useState sortKey
  fetches,        \* the invocations of the fetch function that are in flight
  seq,            \* history: number of invocations of the fetch function so far
  latest,         \* history: the most recently triggered invocation
  ended,          \* history: the invocation that ended last, with its requests
  src,            \* history: which invocation last wrote each three-view list
  r,              \* classifier input record
  cls,            \* classifier outputs for r (Null before classification)
  memo,           \* the useMemo values of the last render (Null before it)
  cvOpen,         \* part_001: useState cvOpen
  cvTitle,        \* part_001: useState cvTitle
  cvUrl,          \* part_001: useState cvUrl (Null or Some(url))
  cvLoading,      \* part_001: useState cvLoading
  opens,          \* the invocations of openCv that are in flight
  cvCalls,        \* history: the openCv calls, each with its file store request and outcome
  env,            \* process.env: each option unset (Null) or Some(string)
  req,            \* the HTTP request at the gate
  res,            \* the outcome of the gate for req (Null before the gate ran)
  admin,          \* the admin client module (Null before it is loaded)
  client,         \* part_002: the useMemo data store client (Null before it is created)
  screen          \* part_002: what the last render returned

fetchVars == <<variant, store, lot, tab, activeTab, loading, errorMsg, rows,
               allCandidates, profilCible, cvAnglais, fetches,
               seq, latest, ended, src>>
filterVars == <<search, profileFilter, hideUnusable, sortKey>>
classVars == <<r, cls>>
cvVars == <<cvOpen, cvTitle, cvUrl, cvLoading, opens, cvCalls>>
envVars == <<env, req, res, admin, client, screen>>
vars == <<fetchVars, filterVars, classVars, memo, cvVars, envVars>>

----------------------------------------------------------------------------
(* Bounds of the model *)

\* invocations of the fetch function per run
MaxFetches == 2
\* the store holds up to this many full pages per lot (plus a partial page)
MaxFullPages == 1
\* longest record list of a render
MaxListLen == 2
\* number of openCv calls of a run
MaxOpens == 2

----------------------------------------------------------------------------
(* Nullable values: null is the empty tuple, a value v is <<v>> *)

Null == <<>>
Some(v) == <<v>>

Min(a, b) == IF a < b THEN a ELSE b

Take(s, n) == SubSeq(s, 1, Min(n, Len(s)))

----------------------------------------------------------------------------
(* The data store (external): the query boundary of spec section 6 *)

Lots == {"LOT1", "LOT2"}
\* page.tsx queries carry no cv_batch filter
AnyLot == "*"

VIEW_ALL == "dashboard_all_candidates"
VIEW_TARGET == "dashboard_profil_cible"
VIEW_ENGLISH == "dashboard_cv_anglais"
Views == <<VIEW_ALL, VIEW_TARGET, VIEW_ENGLISH>>

pageSize == 1000

\* the store delivers at most this many rows per request
MaxRows == pageSize

\* a lot holds k full pages, or k full pages and 200 more records
StoreSizes == { k * pageSize + d : k \in 0..MaxFullPages, d \in {0, 200} }

\* the store contents of a run: every lot holds n records
Stores == { [l \in Lots |-> n] : n \in StoreSizes }

\* A candidate row of the store is named by its id (unique and immutable; the
\* store never changes during a session, so a fetched row is its id): the rows
\* of LOT1 carry the odd ids, the rows of LOT2 the even ones.
Rec(l, i) == IF l = "LOT1" THEN 2 * i - 1 ELSE 2 * i

\* the cv_batch column of a row
cv_batch(row) == IF row % 2 = 1 THEN "LOT1" ELSE "LOT2"

\* the views are server-side subsets of the same table
ViewStride(view) == IF view = VIEW_ALL THEN 1 ELSE IF view = VIEW_TARGET THEN 2 ELSE 3

\* the store's true count of the rows of lot l in a view
ViewCount(view, l) == store[l] \div ViewStride(view)

ViewRows(view, l) == [k \in 1..ViewCount(view, l) |-> Rec(l, k * ViewStride(view))]

ViewRowsFor(view, batch) ==
  IF batch = AnyLot THEN ViewRows(view, "LOT1") \o ViewRows(view, "LOT2")
  ELSE ViewRows(view, batch)

NoRange == -1

\* .from(view).select().eq("cv_batch", batch).range(from, to): an ordered page
Query(view, batch, from, to) ==
  LET V == ViewRowsFor(view, batch)
      hi == IF to = NoRange THEN Len(V) ELSE Min(to + 1, Len(V))
  IN  Take(SubSeq(V, from + 1, hi), MaxRows)

\* errors the store can return: an object with an optional message
Errors == { [message |-> Null], [message |-> Some("")], [message |-> Some("timeout")] }

----------------------------------------------------------------------------
(* Invocations of the fetch functions *)

Pending == -2
Failed == -1

Request(view, from, to) == [view |-> view, from |-> from, to |-> to, got |-> Pending]

\* no invocation yet
NoFetch == [id |-> 0, batch |-> "", view |-> "", pc |-> "none", log |-> <<>>]
NoLatest == [id |-> 0, batch |-> "", view |-> "", conc |-> FALSE, pc |-> "none"]

NewFetch(batch, view, to) ==
  [id |-> seq + 1, batch |-> batch, view |-> view, from |-> 0, all |-> <<>>,
   conc |-> fetches # {}, log |-> << Request(view, 0, to) >>]

\* the log of f with the answer to its pending request filled in
Answered(f, got) == [f.log EXCEPT ![Len(f.log)].got = got]

\* a new invocation f starts and suspends at its first await
Trigger(f) ==
  /\ seq' = f.id
  /\ fetches' = fetches \cup {f}
  /\ latest' = [id |-> f.id, batch |-> f.batch, view |-> f.view, conc |-> f.conc,
                pc |-> "await"]
  /\ UNCHANGED ended

\* invocation f suspends at its next await as g
Suspend(f, g) ==
  /\ fetches' = (fetches \ {f}) \cup {g}
  /\ UNCHANGED <<seq, latest, ended>>

\* an invocation that ends in its catch block asks for the failed page again
Return_retryFailed(f, pc, got) ==
  /\ fetches' = IF pc = "failed"
                THEN (fetches \ {f}) \cup
                       { [f EXCEPT !.log = Append(Answered(f, got), f.log[Len(f.log)])] }
                ELSE fetches \ {f}
  /\ ended' = [id |-> f.id, batch |-> f.batch, view |-> f.view, pc |-> pc,
               log |-> Answered(f, got)]
  /\ latest' = IF latest.id = f.id THEN [latest EXCEPT !.pc = pc] ELSE latest
  /\ UNCHANGED seq

\* invocation f returns (pc = "done") or ends in its catch block ("failed")
Return(f, pc, got) ==
  /\ fetches' = fetches \ {f}
  /\ ended' = [id |-> f.id, batch |-> f.batch, view |-> f.view, pc |-> pc,
               log |-> Answered(f, got)]
  /\ latest' = IF latest.id = f.id THEN [latest EXCEPT !.pc = pc] ELSE latest
  /\ UNCHANGED seq

CanTrigger == seq < MaxFetches
Mounted == seq > 0

----------------------------------------------------------------------------
(* The page loop shared by fetchAllCandidatesForLot and fetchTabData *)

\* const to = from + pageSize - 1
RangeTo(from) == from + pageSize - 1

\* from += pageSize
NextFrom(from) == from + pageSize

\* stops on an empty page only
LastPage_emptyOnly(chunk) == Len(chunk) = 0

\* if (chunk.length < pageSize) break
LastPage(chunk) == Len(chunk) < pageSize

\* keeps the last page only
Concat_lastPageOnly(all, chunk) == chunk

\* all = all.concat(chunk)
Concat(all, chunk) == all \o chunk

\* the next turn of the while loop of invocation f, after a full page
NextTurn(f, all, n) ==
  [f EXCEPT !.all = all, !.from = NextFrom(f.from),
            !.log = Append(Answered(f, n),
                           Request(f.view, NextFrom(f.from), RangeTo(NextFrom(f.from))))]

----------------------------------------------------------------------------
(* part_001: the paginated client-side Dashboard *)

\* e?.confirm?.message || e?.message || "Erreur lors du chargement."
P1ErrorText(e) ==
  IF e.message # Null /\ e.message[1] # "" THEN e.message[1]
  ELSE "Erreur lors du chargement."

\* publishes the pages received before the failure
P1RowsAfterError_partial(old, all) == all

\* the catch block of fetchAllCandidatesForLot does not call setRows
P1RowsAfterError(old, all) == old

\* fetchAllCandidatesForLot(batch) up to its first await
P1Start(batch) ==
  /\ loading' = TRUE
  /\ errorMsg' = Null
  /\ Trigger(NewFetch(batch, VIEW_ALL, RangeTo(0)))

\* resets the tab and the filters, and keeps the sort key
P1ResetFilters_keepsSort ==
  /\ tab' = "all"
  /\ search' = <<>>
  /\ profileFilter' = "ALL"
  /\ hideUnusable' = FALSE
  /\ UNCHANGED sortKey

\* the visual filters the [cvBatch] effect resets
P1ResetFilters ==
  /\ tab' = "all"
  /\ search' = <<>>
  /\ profileFilter' = "ALL"
  /\ hideUnusable' = FALSE
  /\ sortKey' = "name"

\* first run of the [cvBatch] effect
P1Mount ==
  /\ variant = "part_001"
  /\ ~Mounted
  /\ P1Start(lot)
  /\ P1ResetFilters
  /\ UNCHANGED <<variant, store, lot, activeTab, rows, allCandidates,
                 profilCible, cvAnglais, src, classVars, memo, cvVars, envVars>>

\* the lot prop changes and the [cvBatch] effect runs again
P1LotChange(l) ==
  /\ variant = "part_001"
  /\ Mounted /\ CanTrigger
  /\ l # lot
  /\ lot' = l
  /\ P1Start(l)
  /\ P1ResetFilters
  /\ UNCHANGED <<variant, store, activeTab, rows, allCandidates,
                 profilCible, cvAnglais, src, classVars, memo, cvVars, envVars>>

\* the Rafraichir button: fetchAllCandidatesForLot(cvBatch)
P1Refresh ==
  /\ variant = "part_001"
  /\ Mounted /\ CanTrigger
  /\ P1Start(lot)
  /\ UNCHANGED <<variant, store, lot, tab, activeTab, rows, allCandidates, profilCible, cvAnglais, src,
                 filterVars, classVars, memo, cvVars, envVars>>

\* a page request of invocation f returns data: one turn of the while loop
P1Page(f) ==
  /\ variant = "part_001"
  /\ f \in fetches
  /\ LET chunk == Query(f.view, f.batch, f.from, RangeTo(f.from))
         all == Concat(f.all, chunk)
     IN  IF LastPage(chunk)
         THEN /\ rows' = all
              /\ loading' = FALSE
              /\ Return(f, "done", Len(chunk))
         ELSE /\ Suspend(f, NextTurn(f, all, Len(chunk)))
              /\ UNCHANGED <<rows, loading>>
  /\ UNCHANGED <<variant, store, lot, tab, activeTab, errorMsg, allCandidates, profilCible, cvAnglais, src,
                 filterVars, classVars, memo, cvVars, envVars>>

\* a page request of invocation f returns an error: throw, catch, finally
P1PageError(f, e) ==
  /\ variant = "part_001"
  /\ f \in fetches
  /\ rows' = P1RowsAfterError(rows, f.all)
  /\ errorMsg' = Some(P1ErrorText(e))
  /\ loading' = FALSE
  /\ Return(f, "failed", Failed)
  /\ UNCHANGED <<variant, store, lot, tab, activeTab, allCandidates,
                 profilCible, cvAnglais, src, filterVars, classVars, memo, cvVars, envVars>>

Tabs == {"all", "target", "english"}

P1Next ==
  \/ P1Mount
  \/ \E l \in Lots : P1LotChange(l)
  \/ P1Refresh
  \/ \E f \in fetches : P1Page(f)
  \/ \E f \in fetches, e \in Errors : P1PageError(f, e)

----------------------------------------------------------------------------
(* process.env: the options of the data store *)

\* a value is truthy: a string that is set and not empty
truthy(v) == v # Null /\ v[1] # <<>>

\* a || b of two options of process.env
orEnv(a, b) == IF truthy(a) THEN a ELSE b

\* createClient(url, key, options)
createClient(url, key) == [url |-> url, key |-> key]

\* const url = process.env.NEXT_PUBLIC_SUPABASE_URL || process.env.SUPABASE_URL
adminUrl(e) == orEnv(e.NEXT_PUBLIC_SUPABASE_URL, e.SUPABASE_URL)

\* const serviceKey = process.env.SUPABASE_SERVICE_ROLE_KEY || process.env.SUPABASE_SERVICE_ROLE
serviceKey(e) == orEnv(e.SUPABASE_SERVICE_ROLE_KEY, e.SUPABASE_SERVICE_ROLE)

\* the test of the URL only
P2_configMissing_urlOnly(e) == ~truthy(e.NEXT_PUBLIC_SUPABASE_URL)

\* !SUPABASE_URL || !SUPABASE_ANON_KEY
P2_configMissing(e) == ~truthy(e.NEXT_PUBLIC_SUPABASE_URL) \/ ~truthy(e.NEXT_PUBLIC_SUPABASE_ANON_KEY)

----------------------------------------------------------------------------
(* part_002: the view-backed Dashboard.  fetchTotalLot and its [lot] effect *)
(* only write totalLot, which nothing else reads; they are not modelled.    *)

USE_VIEWS == TRUE

viewForTab(t) ==
  IF ~USE_VIEWS THEN VIEW_ALL
  ELSE IF t = "target" THEN VIEW_TARGET
  ELSE IF t = "english" THEN VIEW_ENGLISH
  ELSE VIEW_ALL

\* e?.message ?? String(e)
P2ErrorText(e) == IF e.message # Null THEN e.message[1] ELSE "[object Object]"

\* the catch block of fetchTabData: setRows([])
P2RowsAfterError(old, all) == <<>>

\* fetchTabData() up to its first await, with the lot and tab of its closure
P2Start(l, t) ==
  /\ loading' = TRUE
  /\ errorMsg' = Null
  /\ Trigger(NewFetch(l, viewForTab(t), RangeTo(0)))

\* the first render that reaches the hooks (useMemo creates the client) and
\* the first run of the [lot, tab] effect
P2Mount ==
  /\ variant = "part_002"
  /\ ~Mounted
  /\ ~P2_configMissing(env)
  /\ client' = Some(createClient(env.NEXT_PUBLIC_SUPABASE_URL, env.NEXT_PUBLIC_SUPABASE_ANON_KEY))
  /\ screen' = "dashboard"
  /\ P2Start(lot, tab)
  /\ UNCHANGED <<variant, store, lot, tab, activeTab, rows, allCandidates, profilCible, cvAnglais, src, filterVars,
                 classVars, memo, cvVars, env, req, res, admin>>

\* the lot prop changes and the [lot, tab] effect runs again
P2LotChange(l) ==
  /\ variant = "part_002"
  /\ Mounted /\ CanTrigger
  /\ l # lot
  /\ lot' = l
  /\ P2Start(l, tab)
  /\ UNCHANGED <<variant, store, tab, activeTab, rows, allCandidates, profilCible, cvAnglais, src, filterVars,
                 classVars, memo, cvVars, envVars>>

\* a tab button: setTab(t), then the [lot, tab] effect runs fetchTabData
P2SetTab(t) ==
  /\ variant = "part_002"
  /\ Mounted /\ CanTrigger
  /\ t # tab
  /\ tab' = t
  /\ P2Start(lot, t)
  /\ UNCHANGED <<variant, store, lot, activeTab, rows, allCandidates, profilCible, cvAnglais, src,
                 filterVars, classVars, memo, cvVars, envVars>>

\* the Rafraichir button: fetchTabData
P2Refresh ==
  /\ variant = "part_002"
  /\ Mounted /\ CanTrigger
  /\ P2Start(lot, tab)
  /\ UNCHANGED <<variant, store, lot, tab, activeTab, rows, allCandidates, profilCible, cvAnglais, src,
                 filterVars, classVars, memo, cvVars, envVars>>

\* a page request of invocation f returns data: one turn of the while loop
\* (the !USE_VIEWS fallback filter after the loop is skipped, USE_VIEWS is true)
P2Page(f) ==
  /\ variant = "part_002"
  /\ f \in fetches
  /\ LET chunk == Query(f.view, f.batch, f.from, RangeTo(f.from))
         all == Concat(f.all, chunk)
     IN  IF LastPage(chunk)
         THEN /\ rows' = all
              /\ loading' = FALSE
              /\ Return(f, "done", Len(chunk))
         ELSE /\ Suspend(f, NextTurn(f, all, Len(chunk)))
              /\ UNCHANGED <<rows, loading>>
  /\ UNCHANGED <<variant, store, lot, tab, activeTab, errorMsg, allCandidates, profilCible, cvAnglais, src,
                 filterVars, classVars, memo, cvVars, envVars>>

\* a page request of invocation f returns an error: throw, catch, finally
P2PageError(f, e) ==
  /\ variant = "part_002"
  /\ f \in fetches
  /\ rows' = P2RowsAfterError(rows, f.all)
  /\ errorMsg' = Some(P2ErrorText(e))
  /\ loading' = FALSE
  /\ Return(f, "failed", Failed)
  /\ UNCHANGED <<variant, store, lot, tab, activeTab, allCandidates,
                 profilCible, cvAnglais, src, filterVars, classVars, memo, cvVars, envVars>>

P2Next ==
  \/ P2Mount
  \/ \E l \in Lots : P2LotChange(l)
  \/ \E t \in Tabs : P2SetTab(t)
  \/ P2Refresh
  \/ \E f \in fetches : P2Page(f)
  \/ \E f \in fetches, e \in Errors : P2PageError(f, e)

----------------------------------------------------------------------------
(* The three-view loadData of components/Dashboard.tsx and app/page.tsx *)

NextView(view) == IF view = VIEW_ALL THEN VIEW_TARGET ELSE VIEW_ENGLISH

ListOf(view) ==
  IF view = VIEW_ALL THEN "allCandidates"
  ELSE IF view = VIEW_TARGET THEN "profilCible" ELSE "cvAnglais"

\* setAllCandidates / setProfilCible / setCvAnglais by invocation id
SetList(view, data, id) ==
  /\ allCandidates' = IF view = VIEW_ALL THEN data ELSE allCandidates
  /\ profilCible' = IF view = VIEW_TARGET THEN data ELSE profilCible
  /\ cvAnglais' = IF view = VIEW_ENGLISH THEN data ELSE cvAnglais
  /\ src' = [src EXCEPT ![ListOf(view)] = id]

\* loadData() up to its first await: the query on dashboard_all_candidates
LoadStart(batch) ==
  /\ loading' = TRUE
  /\ errorMsg' = Null
  /\ Trigger(NewFetch(batch, VIEW_ALL, NoRange))

\* loadData of invocation f after the answer (got) to its view query: the
\* next view query, or the finally block after the last one
LoadContinue(f, got) ==
  IF f.view = VIEW_ENGLISH
  THEN /\ loading' = FALSE
       /\ Return(f, "done", got)
  ELSE /\ Suspend(f, [f EXCEPT !.view = NextView(f.view),
                               !.log = Append(Answered(f, got),
                                    Request(NextView(f.view), 0, NoRange))])
       /\ UNCHANGED loading

ActiveTabs == {"tous", "profil_cible", "cv_anglais"}

(* components/Dashboard.tsx *)

DErrorText(view) ==
  IF view = VIEW_ALL THEN "Erreur chargement: Tous les candidats"
  ELSE IF view = VIEW_TARGET THEN "Erreur chargement: Profils cibles"
  ELSE "Erreur chargement: CV en anglais"

\* first run of the [lot] effect
DMount ==
  /\ variant = "Dashboard"
  /\ ~Mounted
  /\ LoadStart(lot)
  /\ UNCHANGED <<variant, store, lot, tab, activeTab, rows, allCandidates, profilCible, cvAnglais, src,
                 filterVars, classVars, memo, cvVars, envVars>>

\* the lot prop changes and the [lot] effect runs again
DLotChange(l) ==
  /\ variant = "Dashboard"
  /\ Mounted /\ CanTrigger
  /\ l # lot
  /\ lot' = l
  /\ LoadStart(l)
  /\ UNCHANGED <<variant, store, tab, activeTab, rows, allCandidates, profilCible, cvAnglais, src,
                 filterVars, classVars, memo, cvVars, envVars>>

\* the Rafraichir button: loadData
DRefresh ==
  /\ variant = "Dashboard"
  /\ Mounted /\ CanTrigger
  /\ LoadStart(lot)
  /\ UNCHANGED <<variant, store, lot, tab, activeTab, rows, allCandidates, profilCible, cvAnglais, src,
                 filterVars, classVars, memo, cvVars, envVars>>

\* the tab buttons: setActiveTab(t)
DSetActiveTab(t) ==
  /\ variant = "Dashboard"
  /\ Mounted
  /\ t # activeTab
  /\ activeTab' = t
  /\ UNCHANGED <<variant, store, lot, tab, loading, errorMsg, rows, allCandidates, profilCible, cvAnglais, fetches, seq, latest, ended, src, filterVars, classVars, memo, cvVars, envVars>>

\* the view query of invocation f returns data: set the list, go on
DView(f) ==
  /\ variant = "Dashboard"
  /\ f \in fetches
  /\ SetList(f.view, Query(f.view, f.batch, 0, NoRange), f.id)
  /\ LoadContinue(f, Len(Query(f.view, f.batch, 0, NoRange)))
  /\ UNCHANGED <<variant, store, lot, tab, activeTab, errorMsg, rows,
                 filterVars, classVars, memo, cvVars, envVars>>

\* the view query of invocation f returns an error: set the message, go on
DViewError(f) ==
  /\ variant = "Dashboard"
  /\ f \in fetches
  /\ errorMsg' = Some(DErrorText(f.view))
  /\ LoadContinue(f, Failed)
  /\ UNCHANGED <<variant, store, lot, tab, activeTab, rows, allCandidates, profilCible, cvAnglais, src,
                 filterVars, classVars, memo, cvVars, envVars>>

DNext ==
  \/ DMount
  \/ \E l \in Lots : DLotChange(l)
  \/ DRefresh
  \/ \E t \in ActiveTabs : DSetActiveTab(t)
  \/ \E f \in fetches : DView(f)
  \/ \E f \in fetches : DViewError(f)

(* app/page.tsx: HomePage, queries without a cv_batch filter *)

HErrorText(view) ==
  IF view = VIEW_ALL
  THEN "Erreur lors du chargement de la liste complete des candidats."
  ELSE IF view = VIEW_TARGET THEN "Erreur lors du chargement des profils cibles."
  ELSE "Erreur lors du chargement des CV en anglais."

\* the [] effect on mount
HMount ==
  /\ variant = "HomePage"
  /\ ~Mounted
  /\ LoadStart(AnyLot)
  /\ UNCHANGED <<variant, store, lot, tab, activeTab, rows, allCandidates, profilCible, cvAnglais, src,
                 filterVars, classVars, memo, cvVars, envVars>>

\* the Rafraichir les donnees button: loadData
HRefresh ==
  /\ variant = "HomePage"
  /\ Mounted /\ CanTrigger
  /\ LoadStart(AnyLot)
  /\ UNCHANGED <<variant, store, lot, tab, activeTab, rows, allCandidates, profilCible, cvAnglais, src,
                 filterVars, classVars, memo, cvVars, envVars>>

\* the tab buttons: setActiveTab(t)
HSetActiveTab(t) ==
  /\ variant = "HomePage"
  /\ Mounted
  /\ t # activeTab
  /\ activeTab' = t
  /\ UNCHANGED <<variant, store, lot, tab, loading, errorMsg, rows, allCandidates, profilCible, cvAnglais, fetches, seq, latest, ended, src, filterVars, classVars, memo, cvVars, envVars>>

\* the view query of invocation f returns data: set the list, go on
HView(f) ==
  /\ variant = "HomePage"
  /\ f \in fetches
  /\ SetList(f.view, Query(f.view, f.batch, 0, NoRange), f.id)
  /\ LoadContinue(f, Len(Query(f.view, f.batch, 0, NoRange)))
  /\ UNCHANGED <<variant, store, lot, tab, activeTab, errorMsg, rows,
                 filterVars, classVars, memo, cvVars, envVars>>

\* the view query of invocation f returns an error: set the message, go on
HViewError(f) ==
  /\ variant = "HomePage"
  /\ f \in fetches
  /\ errorMsg' = Some(HErrorText(f.view))
  /\ LoadContinue(f, Failed)
  /\ UNCHANGED <<variant, store, lot, tab, activeTab, rows, allCandidates, profilCible, cvAnglais, src,
                 filterVars, classVars, memo, cvVars, envVars>>

HNext ==
  \/ HMount
  \/ HRefresh
  \/ \E t \in ActiveTabs : HSetActiveTab(t)
  \/ \E f \in fetches : HView(f)
  \/ \E f \in fetches : HViewError(f)

----------------------------------------------------------------------------
(* Strings of the record fields: a string is the sequence of its characters *)
(* (a character outside ASCII is written as a name between angle brackets). *)

Upper == <<"A", "B", "C", "D", "E", "F", "G", "H", "I", "J", "K", "L", "M", "N",
           "O", "P", "Q", "R", "S", "T", "U", "V", "W", "X", "Y", "Z", "<E-acute>",
           "<A-grave>">>
Lower == <<"a", "b", "c", "d", "e", "f", "g", "h", "i", "j", "k", "l", "m", "n",
           "o", "p", "q", "r", "s", "t", "u", "v", "w", "x", "y", "z", "<e-acute>",
           "<a-grave>">>

toLowerChar(c) ==
  IF \E i \in DOMAIN Upper : Upper[i] = c
  THEN Lower[CHOOSE i \in DOMAIN Upper : Upper[i] = c]
  ELSE c

\* String.prototype.toLowerCase
toLowerCase(str) == [i \in DOMAIN str |-> toLowerChar(str[i])]

WhiteSpace == {" ", "\t", "\n"}

RECURSIVE trimStart(_)
trimStart(str) ==
  IF str # <<>> /\ Head(str) \in WhiteSpace THEN trimStart(Tail(str)) ELSE str

RECURSIVE trimEnd(_)
trimEnd(str) ==
  IF str # <<>> /\ str[Len(str)] \in WhiteSpace
  THEN trimEnd(SubSeq(str, 1, Len(str) - 1)) ELSE str

\* String.prototype.trim
trim(str) == trimEnd(trimStart(str))

\* String.prototype.includes
includes(str, sub) ==
  \E i \in 0..(Len(str) - Len(sub)) : SubSeq(str, i + 1, i + Len(sub)) = sub

\* String(v ?? "") of a string-or-null field
StringOrEmpty(v) == IF v = Null THEN <<>> ELSE v[1]

toUpperChar(c) ==
  IF \E i \in DOMAIN Lower : Lower[i] = c
  THEN Upper[CHOOSE i \in DOMAIN Lower : Lower[i] = c]
  ELSE c

\* String.prototype.toUpperCase
toUpperCase(str) == [i \in DOMAIN str |-> toUpperChar(str[i])]

\* String.prototype.startsWith
startsWith(str, pre) == Len(pre) <= Len(str) /\ SubSeq(str, 1, Len(pre)) = pre

\* str.replace(/\s+/g, "")
stripSpaces(str) == SelectSeq(str, LAMBDA c : c \notin WhiteSpace)

\* the rank of a character in the collation order of localeCompare: letters
\* by their base letter whatever the case or accent, other characters first
baseLetter(c) ==
  LET low == toLowerChar(c)
  IN  IF low = "<e-acute>" THEN "e" ELSE IF low = "<a-grave>" THEN "a" ELSE low

rank(c) ==
  IF \E i \in 1..26 : Lower[i] = baseLetter(c)
  THEN CHOOSE i \in 1..26 : Lower[i] = baseLetter(c)
  ELSE 0

\* a.localeCompare(b) < 0: a sorts before b
RECURSIVE sortsBefore(_, _)
sortsBefore(a, b) ==
  IF b = <<>> THEN FALSE
  ELSE IF a = <<>> THEN TRUE
  ELSE IF rank(Head(a)) # rank(Head(b)) THEN rank(Head(a)) < rank(Head(b))
  ELSE sortsBefore(Tail(a), Tail(b))

----------------------------------------------------------------------------
(* Numbers of the record fields: null, a finite number, NaN or an infinity *)

NullNum == [kind |-> "null", v |-> 0]
Num(n) == [kind |-> "num", v |-> n]
NaN == [kind |-> "nan", v |-> 0]
Infinity == [kind |-> "inf", v |-> 0]

\* Number.isFinite
isFinite(x) == x.kind = "num"

----------------------------------------------------------------------------
(* part_001: the usability heuristic *)

\* String(s ?? "").trim()
P1_norm(v) == trim(StringOrEmpty(v))

\* (row.total_experience_years ?? 0) > 0
P1_hasExperience(x) == x.kind = "num" /\ x.v > 0

looksLikeUnusable(row) ==
  LET name == P1_norm(row.full_name)
      hasKey ==
        \/ Len(name) > 2
        \/ Len(P1_norm(row.degree_level)) > 0
        \/ Len(P1_norm(row.field_of_study)) > 0
        \/ P1_hasExperience(row.total_experience_years)
        \/ Len(P1_norm(row.last_job_title)) > 0
        \/ includes(toLowerCase(P1_norm(row.notes)), <<"n", "o", "n", " ", "l", "i", "s", "i", "b", "l", "e">>)
  IN  ~hasKey

----------------------------------------------------------------------------
(* part_002: the usability test and the score band *)

\* the values some views return instead of NULL
Placeholders ==
  { <<"<em-dash>">>,
    <<"<en-dash>">>,
    <<"-">>,
    <<"n", "/", "a">>,
    <<"n", "a">>,
    <<"n", "u", "l", "l">>,
    <<"u", "n", "d", "e", "f", "i", "n", "e", "d">>,
    <<"n", "o", "n", " ", "s", "p", "<e-acute>", "c", "i", "f", "i", "<e-acute>">>,
    <<"n", "o", "n", " ", "s", "p", "e", "c", "i", "f", "i", "e">> }

P2_norm(v) ==
  LET str == trim(StringOrEmpty(v))
  IN  IF str = <<>> THEN <<>>
      ELSE IF toLowerCase(str) \in Placeholders THEN <<>>
      ELSE str

UnusableNotes ==
  { <<"c", "v", " ", "n", "o", "n", " ", "l", "i", "s", "i", "b", "l", "e">>,
    <<"i", "l", "l", "i", "s", "i", "b", "l", "e">>,
    <<"i", "n", "u", "t", "i", "l", "i", "s", "a", "b", "l", "e">>,
    <<"t", "e", "x", "t", "e", " ", "t", "r", "o", "p", " ", "c", "o", "u", "r", "t">> }

isUnusable(row) ==
  LET hasAny ==
        \/ P2_norm(row.full_name) # <<>>
        \/ P2_norm(row.degree_level) # <<>>
        \/ P2_norm(row.field_of_study) # <<>>
        \/ P2_norm(row.last_job_title) # <<>>
        \/ P2_norm(row.last_company) # <<>>
        \/ P2_norm(row.education_raw) # <<>>
        \/ P2_norm(row.experience_raw) # <<>>
      note == toLowerCase(P2_norm(row.notes))
      flagged == \E phrase \in UnusableNotes : includes(note, phrase)
  IN  ~hasAny \/ flagged

\* compares the score before testing usability
bandFromScore_scoreFirst(row) ==
  LET sc == IF isFinite(row.score_profil) THEN row.score_profil.v ELSE 0
  IN  IF sc >= 80 THEN "A"
      ELSE IF sc >= 60 THEN "B"
      ELSE IF sc >= 40 THEN "C"
      ELSE IF isUnusable(row) THEN "UNUSABLE"
      ELSE "REVIEW"

\* takes 80 for a B
bandFromScore_above80(row) ==
  IF isUnusable(row) THEN "UNUSABLE"
  ELSE LET sc == IF isFinite(row.score_profil) THEN row.score_profil.v ELSE 0
       IN  IF sc > 80 THEN "A"
           ELSE IF sc >= 60 THEN "B"
           ELSE IF sc >= 40 THEN "C"
           ELSE "REVIEW"

bandFromScore(row) ==
  IF isUnusable(row) THEN "UNUSABLE"
  ELSE LET sc == IF isFinite(row.score_profil) THEN row.score_profil.v ELSE 0
       IN  IF sc >= 80 THEN "A"
           ELSE IF sc >= 60 THEN "B"
           ELSE IF sc >= 40 THEN "C"
           ELSE "REVIEW"

----------------------------------------------------------------------------
(* The classifiers applied to one record *)

\* full_name: missing, empty, blank, 1 or 2 characters, a name, a placeholder
Names == { Null, Some(<<>>), Some(<<" ">>), Some(<<"A", "l">>), Some(<<"B", "o", "b">>), Some(<<"<em-dash>">>) }
Degrees == { Null, Some(<<"M", "a", "s", "t", "e", "r">>), Some(<<"N", "/", "A">>) }
Fields == { Null, Some(<<"D", "a", "t", "a">>) }
Jobs == { Null, Some(<<"D", "e", "v">>) }
Companies == { Null, Some(<<"A", "c", "m", "e">>) }
RawTexts == { Null, Some(<<"M", "S", "c">>) }
Experiences == { NullNum, Num(0), Num(4) }
Notes == { Null, Some(<<"C", "V", " ", "n", "o", "n", " ", "l", "i", "s", "i", "b", "l", "e">>), Some(<<"I", "l", "l", "i", "s", "i", "b", "l", "e", " ">>), Some(<<"b", "o", "n", " ", "p", "r", "o", "f", "i", "l">>) }
Scores == { NullNum, NaN, Infinity } \cup
          { Num(n) : n \in {-1, 0, 39, 40, 59, 60, 79, 80, 100} }
ProfileTypes == { Null, Some(<<"A">>), Some(<<"C">>) }

Records ==
  [ full_name : Names, degree_level : Degrees, field_of_study : Fields,
    total_experience_years : Experiences, last_job_title : Jobs,
    last_company : Companies, education_raw : RawTexts, experience_raw : {Null},
    notes : Notes, score_profil : Scores, profile_type : ProfileTypes,
    file_name : {Null}, cv_url : {Null}, cv_language : {Null},
    speaks_english : {Null}, english_level : {Null} ]

\* the record with nothing extracted
NoRecord ==
  [ full_name |-> Null, degree_level |-> Null, field_of_study |-> Null,
    total_experience_years |-> Num(0), last_job_title |-> Null,
    last_company |-> Null, education_raw |-> Null, experience_raw |-> Null,
    notes |-> Null, score_profil |-> NullNum, profile_type |-> Null,
    file_name |-> Null, cv_url |-> Null, cv_language |-> Null,
    speaks_english |-> Null, english_level |-> Null ]

\* the row is rendered: every classifier is applied to it
Classify ==
  /\ variant = "none"
  /\ cls = Null
  /\ cls' = Some([ looksLikeUnusable |-> looksLikeUnusable(r),
                   isUnusable |-> isUnusable(r),
                   bandFromScore |-> bandFromScore(r) ])
  /\ UNCHANGED <<fetchVars, filterVars, r, memo, cvVars, envVars>>

----------------------------------------------------------------------------
(* Lists of records: counting, filtering and sorting *)

\* x ?? d of a nullable number
orElse(x, d) == IF x.kind = "null" THEN d ELSE x.v

\* list.filter(Test).length
CountIf(list, Test(_)) == Cardinality({ i \in DOMAIN list : Test(list[i]) })

\* Array.prototype.sort with a comparator (stable): Before(a, b) is
\* compare(a, b) < 0; records that compare equal keep their order
sort(list, Before(_, _)) ==
  LET pos(i) == 1 + Cardinality({ j \in DOMAIN list :
                    \/ Before(list[j], list[i])
                    \/ (~Before(list[i], list[j]) /\ j < i) })
  IN  [k \in DOMAIN list |-> list[CHOOSE i \in DOMAIN list : pos(i) = k]]

(* part_002: the computed stats and the filtered rows *)

\* norm(ar.full_name || ar.file_name)
P2_sortName(row) ==
  P2_norm(IF StringOrEmpty(row.full_name) # <<>> THEN row.full_name ELSE row.file_name)

P2_before(a, b, key) ==
  IF key = "score_desc" THEN orElse(b.score_profil, 0) - orElse(a.score_profil, 0) < 0
  ELSE IF key = "exp_desc"
  THEN orElse(b.total_experience_years, 0) - orElse(a.total_experience_years, 0) < 0
  ELSE sortsBefore(P2_sortName(a), P2_sortName(b))

\* the search filter of computed
P2_matches(row, query) ==
  \/ includes(toLowerCase(P2_norm(row.full_name)), query)
  \/ includes(toLowerCase(P2_norm(row.file_name)), query)
  \/ includes(toLowerCase(P2_norm(row.last_company)), query)

\* the filter chain of computed, before the sort
P2_filter(list, hide, q, bandFilter) ==
  LET query == toLowerCase(trim(q))
      keep(row) ==
        /\ hide => bandFromScore(row) # "UNUSABLE"
        /\ query # <<>> => P2_matches(row, query)
        /\ bandFilter # "ALL" => bandFromScore(row) = bandFilter
  IN  SelectSeq(list, keep)

\* computed.filtered (the rows of the { r, band } pairs)
P2_filtered(list, hide, q, bandFilter, key) ==
  sort(P2_filter(list, hide, q, bandFilter), LAMBDA a, b : P2_before(a, b, key))

\* counts band C by the score alone, unusable records included
P2_computed_scoreOnlyC(list, hide, q, bandFilter, key) ==
  LET band(row) == bandFromScore(row)
      total == Len(list)
      unusable == CountIf(list, LAMBDA x : band(x) = "UNUSABLE")
      sc(row) == orElse(row.score_profil, 0)
  IN  [ total |-> total,
        unusable |-> unusable,
        usable |-> total - unusable,
        countA |-> CountIf(list, LAMBDA x : band(x) = "A"),
        countB |-> CountIf(list, LAMBDA x : band(x) = "B"),
        countC |-> CountIf(list, LAMBDA x : sc(x) >= 40 /\ sc(x) < 60),
        countReview |-> CountIf(list, LAMBDA x : band(x) = "REVIEW"),
        filtered |-> P2_filtered(list, hide, q, bandFilter, key) ]

\* counts the bands on the rows that pass the filters
P2_computed_countsShown(list, hide, q, bandFilter, key) ==
  LET band(row) == bandFromScore(row)
      shown == P2_filter(list, hide, q, bandFilter)
      total == Len(shown)
      unusable == CountIf(shown, LAMBDA x : band(x) = "UNUSABLE")
  IN  [ total |-> total,
        unusable |-> unusable,
        usable |-> total - unusable,
        countA |-> CountIf(shown, LAMBDA x : band(x) = "A"),
        countB |-> CountIf(shown, LAMBDA x : band(x) = "B"),
        countC |-> CountIf(shown, LAMBDA x : band(x) = "C"),
        countReview |-> CountIf(shown, LAMBDA x : band(x) = "REVIEW"),
        filtered |-> P2_filtered(list, hide, q, bandFilter, key) ]

P2_computed(list, hide, q, bandFilter, key) ==
  LET band(row) == bandFromScore(row)
      total == Len(list)
      unusable == CountIf(list, LAMBDA x : band(x) = "UNUSABLE")
  IN  [ total |-> total,
        unusable |-> unusable,
        usable |-> total - unusable,
        countA |-> CountIf(list, LAMBDA x : band(x) = "A"),
        countB |-> CountIf(list, LAMBDA x : band(x) = "B"),
        countC |-> CountIf(list, LAMBDA x : band(x) = "C"),
        countReview |-> CountIf(list, LAMBDA x : band(x) = "REVIEW"),
        filtered |-> P2_filtered(list, hide, q, bandFilter, key) ]

P2_Bands == {"ALL", "A", "B", "C", "REVIEW", "UNUSABLE"}
P2_SortKeys == {"name", "score_desc", "exp_desc"}

\* part_002 renders: useMemo computed
P2Render ==
  /\ variant = "part_002"
  /\ memo = Null
  /\ memo' = Some(P2_computed(rows, hideUnusable, search, profileFilter, sortKey))
  /\ UNCHANGED <<fetchVars, filterVars, classVars, cvVars, envVars>>

(* part_001: the stored label, the subsets, the stats and the visible rows *)

toProfileFilter(profile_type) ==
  LET p == toLowerCase(StringOrEmpty(profile_type))
  IN  IF startsWith(p, <<"a">>) /\ includes(p, <<"r", "e", "v", "o", "i", "r">>) THEN "A_REVOIR"
      ELSE IF p = <<"a">> THEN "A"
      ELSE IF p = <<"b">> THEN "B"
      ELSE IF p = <<"c">> THEN "C"
      ELSE "ALL"

looksTargetProfile(row) ==
  LET degree == toLowerCase(P1_norm(row.degree_level))
      field == toLowerCase(P1_norm(row.field_of_study))
      exp == orElse(row.total_experience_years, 0)
      eng == row.speaks_english = Some(TRUE) \/ Len(P1_norm(row.english_level)) > 0
      degreeOk ==
        \E w \in { <<"b", "a", "c", "+", "5">>, <<"l", "i", "c", "e", "n", "c", "e">>, <<"m", "a", "s", "t", "e", "r">>, <<"i", "n", "g">>, <<"i", "n", "g", "e", "n">> } :
          includes(degree, w)
      fieldOk ==
        \E w \in { <<"<e-acute>", "c", "o", "n", "o", "m", "i", "e", " ", "m", "a", "t", "h">>, <<"e", "c", "o", "n", "o", "m", "i", "e", " ", "m", "a", "t", "h">>, <<"<e-acute>", "c", "o", "n", "o", "m", "i", "e", " ", "q", "u", "a", "n", "t">>,
                   <<"e", "c", "o", "n", "o", "m", "i", "e", " ", "q", "u", "a", "n", "t">>, <<"q", "u", "a", "n", "t">>, <<"e", "c", "o", "n", "o", "m">>, <<"g", "<e-acute>", "n", "i", "e">>, <<"g", "e", "n", "i", "e">>,
                   <<"i", "n", "f", "o", "r", "m", "a", "t">>, <<"c", "o", "m", "p", "u", "t", "e", "r">>, <<"s", "o", "f", "t", "w", "a", "r", "e">>, <<"d", "a", "t", "a">> } :
          includes(field, w)
  IN  degreeOk /\ fieldOk /\ exp >= 3 /\ eng

\* the inline english filter: norm(r.cv_language).toLowerCase() === "en"
P1_isEnglish(row) == toLowerCase(P1_norm(row.cv_language)) = <<"e", "n">>

\* countProfiles(arr), and byProfile over all rows
countProfiles(arr) ==
  [ A |-> CountIf(arr, LAMBDA x : toProfileFilter(x.profile_type) = "A"),
    B |-> CountIf(arr, LAMBDA x : toProfileFilter(x.profile_type) = "B"),
    C |-> CountIf(arr, LAMBDA x : toProfileFilter(x.profile_type) = "C"),
    A_REVOIR |-> CountIf(arr, LAMBDA x : toProfileFilter(x.profile_type) = "A_REVOIR") ]

P1_subsetStats(arr) ==
  [ total |-> Len(arr),
    usableCount |-> CountIf(arr, LAMBDA x : ~looksLikeUnusable(x)),
    unusableCount |-> CountIf(arr, LAMBDA x : looksLikeUnusable(x)),
    byProfile |-> countProfiles(arr) ]

P1_computed(list) ==
  [ total |-> Len(list),
    usableCount |-> CountIf(list, LAMBDA x : ~looksLikeUnusable(x)),
    unusableCount |-> CountIf(list, LAMBDA x : looksLikeUnusable(x)),
    byProfile |-> countProfiles(list),
    target |-> P1_subsetStats(SelectSeq(list, looksTargetProfile)),
    english |-> P1_subsetStats(SelectSeq(list, P1_isEnglish)) ]

\* filters, then drops the first row that passed
P1_filter_skipFirst(list, t, hide, text, pf) ==
  LET q == toLowerCase(P1_norm(Some(text)))
      keep(row) ==
        /\ t = "target" => looksTargetProfile(row)
        /\ t = "english" => P1_isEnglish(row)
        /\ hide => ~looksLikeUnusable(row)
        /\ q # <<>> => \/ includes(toLowerCase(P1_norm(row.full_name)), q)
                       \/ includes(toLowerCase(P1_norm(row.file_name)), q)
        /\ pf # "ALL" => toProfileFilter(row.profile_type) = pf
      kept == SelectSeq(list, keep)
  IN  IF kept = <<>> THEN kept ELSE Tail(kept)

\* the filter chain of visibleRows, before the sort
P1_filter(list, t, hide, text, pf) ==
  LET q == toLowerCase(P1_norm(Some(text)))
      keep(row) ==
        /\ t = "target" => looksTargetProfile(row)
        /\ t = "english" => P1_isEnglish(row)
        /\ hide => ~looksLikeUnusable(row)
        /\ q # <<>> => \/ includes(toLowerCase(P1_norm(row.full_name)), q)
                       \/ includes(toLowerCase(P1_norm(row.file_name)), q)
        /\ pf # "ALL" => toProfileFilter(row.profile_type) = pf
  IN  SelectSeq(list, keep)

P1_before(a, b, key) ==
  LET nameA == toLowerCase(P1_norm(a.full_name))
      nameB == toLowerCase(P1_norm(b.full_name))
      scoreA == orElse(a.score_profil, -1)
      scoreB == orElse(b.score_profil, -1)
      expA == orElse(a.total_experience_years, -1)
      expB == orElse(b.total_experience_years, -1)
  IN  IF key = "score_desc" THEN scoreB - scoreA < 0
      ELSE IF key = "score_asc" THEN scoreA - scoreB < 0
      ELSE IF key = "exp_desc" THEN expB - expA < 0
      ELSE IF key = "exp_asc" THEN expA - expB < 0
      ELSE sortsBefore(nameA, nameB)

P1_visibleRows(list, t, hide, text, pf, key) ==
  sort(P1_filter(list, t, hide, text, pf), LAMBDA a, b : P1_before(a, b, key))

P1_Profiles == {"ALL", "A", "B", "C", "A_REVOIR"}
P1_SortKeys == {"name", "score_desc", "score_asc", "exp_desc", "exp_asc"}

\* part_001 renders: useMemo computed and visibleRows
P1Render ==
  /\ variant = "part_001"
  /\ memo = Null
  /\ memo' = Some([ computed |-> P1_computed(rows),
                    visibleRows |-> P1_visibleRows(rows, tab, hideUnusable, search,
                                                   profileFilter, sortKey) ])
  /\ UNCHANGED <<fetchVars, filterVars, classVars, cvVars, envVars>>

(* components/Dashboard.tsx: computeStats and filterRows (app/page.tsx has   *)
(* the same isInvalidRow, matchesProfileFilter and computeStats)            *)

INVALID_LABEL == <<"(", "C", "V", " ", "n", "o", "n", " ", "l", "i", "s", "i", "b", "l", "e", " ", "a", "u", "t", "o", "m", "a", "t", "i", "q", "u", "e", "m", "e", "n", "t", ")">>

isInvalidRow(row) == row.full_name = Some(INVALID_LABEL)

\* (row.profile_type || "").toUpperCase().replace(/\s+/g, "")
D_label(row) == stripSpaces(toUpperCase(StringOrEmpty(row.profile_type)))

D_isReview(t) == t = <<"<A-grave>", "R", "E", "V", "O", "I", "R">> \/ t = <<"A", "R", "E", "V", "O", "I", "R">>

matchesProfileFilter(row, filter) ==
  IF filter = "all" THEN TRUE
  ELSE IF filter = "A" THEN D_label(row) = <<"A">>
  ELSE IF filter = "B" THEN D_label(row) = <<"B">>
  ELSE IF filter = "C" THEN D_label(row) = <<"C">>
  ELSE IF filter = "review" THEN D_isReview(D_label(row))
  ELSE TRUE

computeStats(list) ==
  LET counted(x, Test(_)) == ~isInvalidRow(x) /\ Test(D_label(x))
  IN  [ total |-> Len(list),
        invalid |-> CountIf(list, isInvalidRow),
        countA |-> CountIf(list, LAMBDA x : counted(x, LAMBDA t : t = <<"A">>)),
        countB |-> CountIf(list, LAMBDA x : counted(x, LAMBDA t : t = <<"B">>)),
        countC |-> CountIf(list, LAMBDA x : counted(x, LAMBDA t : t = <<"C">>)),
        countReview |-> CountIf(list, LAMBDA x : counted(x, D_isReview)) ]

applySort(list, key) ==
  IF key = "name"
  THEN sort(list, LAMBDA a, b : sortsBefore(StringOrEmpty(a.full_name),
                                            StringOrEmpty(b.full_name)))
  ELSE IF key = "score_desc"
  THEN sort(list, LAMBDA a, b :
              orElse(b.score_profil, -1) - orElse(a.score_profil, -1) < 0)
  ELSE IF key = "exp_desc"
  THEN sort(list, LAMBDA a, b :
              orElse(b.total_experience_years, -1)
                - orElse(a.total_experience_years, -1) < 0)
  ELSE list

\* the filter of filterRows, before applySort
D_filter(input, text, pf, hideInvalid) ==
  LET trimmed == toLowerCase(trim(text))
      keep(row) ==
        /\ ~(hideInvalid /\ isInvalidRow(row))
        /\ matchesProfileFilter(row, pf)
        /\ trimmed # <<>> =>
             includes(toLowerCase(StringOrEmpty(row.full_name)), trimmed)
  IN  SelectSeq(input, keep)

filterRows(input, text, pf, hideInvalid, key) ==
  applySort(D_filter(input, text, pf, hideInvalid), key)

D_Profiles == {"all", "A", "B", "C", "review"}
D_SortKeys == {"name", "score_desc", "exp_desc"}

\* components/Dashboard.tsx renders: filteredAll and the stats of the list
DRender ==
  /\ variant = "Dashboard"
  /\ memo = Null
  /\ memo' = Some([ stats |-> computeStats(allCandidates),
                    filteredAll |-> filterRows(allCandidates, search, profileFilter,
                                               hideUnusable, sortKey) ])
  /\ UNCHANGED <<fetchVars, filterVars, classVars, cvVars, envVars>>

(* app/page.tsx: the filter of filteredAll, without trim and without sort *)

H_filter(input, text, pf, hideInvalid) ==
  LET keep(row) ==
        /\ ~(hideInvalid /\ isInvalidRow(row))
        /\ matchesProfileFilter(row, pf)
        /\ text # <<>> =>
             includes(toLowerCase(StringOrEmpty(row.full_name)), toLowerCase(text))
  IN  SelectSeq(input, keep)

\* app/page.tsx renders: filteredAll and the stats of the list
HRender ==
  /\ variant = "HomePage"
  /\ memo = Null
  /\ memo' = Some([ stats |-> computeStats(allCandidates),
                    filteredAll |-> H_filter(allCandidates, search, profileFilter,
                                             hideUnusable) ])
  /\ UNCHANGED <<fetchVars, filterVars, classVars, cvVars, envVars>>

(* The handlers of the filter bar and of the stat cards *)

\* one handler runs: a set-state call on tab, search, profileFilter (bandFilter),
\* hideUnusable (hideInvalid) or sortKey (sort), or the two calls of the
\* "CV uploades" card of part_001
SetControls(t, text, pf, hide, key) ==
  /\ \/ Cardinality({ i \in 1..5 : <<t, text, pf, hide, key>>[i]
                                      # <<tab, search, profileFilter, hideUnusable, sortKey>>[i] }) = 1
     \/ /\ variant = "part_001"
        /\ t = tab /\ text = search /\ key = sortKey
        /\ pf = "ALL" /\ hide = FALSE
        /\ profileFilter # "ALL" /\ hideUnusable
  /\ tab' = t
  /\ search' = text
  /\ profileFilter' = pf
  /\ hideUnusable' = hide
  /\ sortKey' = key
  /\ UNCHANGED <<variant, store, lot, activeTab, loading, errorMsg, rows, allCandidates,
                 profilCible, cvAnglais, fetches, seq, latest, ended, src, classVars,
                 cvVars, envVars>>

\* part_001: a handler, without the values of useMemo
P1Edit(t, text, pf, hide, key) ==
  /\ variant = "part_001"
  /\ Mounted
  /\ SetControls(t, text, pf, hide, key)
  /\ UNCHANGED memo

\* part_001: a handler and the render after it
P1Filter(t, text, pf, hide, key) ==
  /\ variant = "part_001"
  /\ memo # Null
  /\ SetControls(t, text, pf, hide, key)
  /\ memo' = Some([ computed |-> P1_computed(rows),
                    visibleRows |-> P1_visibleRows(rows, t, hide, text, pf, key) ])

\* part_002: a handler and the render after it (setTab starts a fetch: P2SetTab)
P2Filter(text, pf, hide, key) ==
  /\ variant = "part_002"
  /\ memo # Null
  /\ SetControls(tab, text, pf, hide, key)
  /\ memo' = Some(P2_computed(rows, hide, text, pf, key))

\* components/Dashboard.tsx: a handler and the render after it
DFilter(text, pf, hide, key) ==
  /\ variant = "Dashboard"
  /\ memo # Null
  /\ SetControls(tab, text, pf, hide, key)
  /\ memo' = Some([ stats |-> computeStats(allCandidates),
                    filteredAll |-> filterRows(allCandidates, text, pf, hide, key) ])

\* app/page.tsx: a handler and the render after it (there is no sort control)
HFilter(text, pf, hide) ==
  /\ variant = "HomePage"
  /\ memo # Null
  /\ SetControls(tab, text, pf, hide, sortKey)
  /\ memo' = Some([ stats |-> computeStats(allCandidates),
                    filteredAll |-> H_filter(allCandidates, text, pf, hide) ])

(* components/DashboardClient.tsx: the stored label and the subsets *)

normalizeProfile(p) ==
  IF StringOrEmpty(p) = <<>> THEN Null
  ELSE LET v == toLowerCase(trim(StringOrEmpty(p)))
       IN  IF v = <<"a">> THEN Some(<<"A">>)
           ELSE IF v = <<"b">> THEN Some(<<"B">>)
           ELSE IF v = <<"c">> THEN Some(<<"C">>)
           ELSE IF includes(v, <<"r", "e", "v", "o", "i", "r">>) \/ includes(v, <<"r", "e", "v", "i", "e", "w">>)
           THEN Some(<<"<A-grave>", " ", "r", "e", "v", "o", "i", "r">>)
           ELSE Null

isTargetProfile(c) ==
  LET degree == toLowerCase(StringOrEmpty(c.degree_level))
      field == toLowerCase(StringOrEmpty(c.field_of_study))
      goodDegree ==
        \E w \in { <<"b", "a", "c", "+", "5">>, <<"b", "a", "c", " ", "+", "5">>, <<"l", "i", "c", "e", "n", "c", "e">>, <<"m", "a", "s", "t", "e", "r">> } : includes(degree, w)
      goodField ==
        \E w \in { <<"<e-acute>", "c", "o", "n", "o", "m", "i", "e">>, <<"e", "c", "o", "n", "o", "m">>, <<"f", "i", "n", "a", "n", "c", "e">>, <<"a", "u", "d", "i", "t">>, <<"i", "n", "f", "o", "r", "m", "a", "t", "i", "q", "u", "e">>,
                   <<"g", "e", "s", "t", "i", "o", "n">>, <<"d", "a", "t", "a">>, <<"q", "u", "a", "n", "t">>, <<"m", "a", "t", "h">> } : includes(field, w)
      exp == orElse(c.total_experience_years, 0)
      expOk == exp >= 3
  IN  goodDegree /\ goodField /\ expOk

\* isEnglishCv of DashboardClient.tsx
DC_isEnglishCv(c) == toLowerCase(StringOrEmpty(c.cv_language)) = <<"e", "n">>

(* part_002: the English subset *)

isEnglishCv(row) ==
  LET lang == toLowerCase(P2_norm(row.cv_language))
  IN  \/ lang = <<"e", "n">>
      \/ startsWith(lang, <<"e", "n", "-">>)
      \/ includes(lang, <<"e", "n", "g", "l", "i", "s", "h">>)
      \/ includes(lang, <<"a", "n", "g", "l", "a", "i", "s">>)

(* The label and the subsets of one record *)

StoredLabels ==
  { Null, Some(<<>>), Some(<<"A">>), Some(<<"b">>), Some(<<"C">>), Some(<<"<A-grave>", " ", "r", "e", "v", "o", "i", "r">>),
    Some(<<"A", " ", "r", "e", "v", "o", "i", "r">>), Some(<<"a", " ", "r", "e", "v", "o", "i", "r">>), Some(<<"r", "e", "v", "o", "i", "r">>), Some(<<"R", "E", "V", "I", "E", "W">>),
    Some(<<"X">>) }
DegreeLevels == { Null, Some(<<"M", "a", "s", "t", "e", "r">>), Some(<<"B", "a", "c", "+", "2">>) }
StudyFields == { Null, Some(<<"D", "a", "t", "a", " ", "S", "c", "i", "e", "n", "c", "e">>), Some(<<"D", "r", "o", "i", "t">>) }
Years == { NullNum, Num(0), Num(2), Num(3), Num(4) }
SpeaksEnglish == { Null, Some(TRUE), Some(FALSE) }
EnglishLevels == { Null, Some(<<"B", "2">>) }
Languages ==
  { Null, Some(<<"e", "n">>), Some(<<"E", "N">>), Some(<<"e", "n", "-", "U", "S">>), Some(<<"f", "r">>),
    Some(<<"E", "n", "g", "l", "i", "s", "h">>), Some(<<"a", "n", "g", "l", "a", "i", "s">>) }

Candidates ==
  { [NoRecord EXCEPT !.profile_type = pt, !.degree_level = dl,
       !.field_of_study = fs, !.total_experience_years = y,
       !.speaks_english = se, !.english_level = el, !.cv_language = cl] :
      pt \in StoredLabels, dl \in DegreeLevels, fs \in StudyFields, y \in Years,
      se \in SpeaksEnglish, el \in EnglishLevels, cl \in Languages }

\* the row is rendered: its label is normalised and its subsets are decided
Derive ==
  /\ variant = "subsets"
  /\ cls = Null
  /\ cls' = Some([ toProfileFilter |-> toProfileFilter(r.profile_type),
                   normalizeProfile |-> normalizeProfile(r.profile_type),
                   matchesProfileFilter |->
                     [f \in D_Profiles |-> matchesProfileFilter(r, f)],
                   looksTargetProfile |-> looksTargetProfile(r),
                   isTargetProfile |-> isTargetProfile(r),
                   isEnglishCv |-> isEnglishCv(r),
                   DC_isEnglishCv |-> DC_isEnglishCv(r),
                   P1_isEnglish |-> P1_isEnglish(r) ])
  /\ UNCHANGED <<fetchVars, filterVars, r, memo, cvVars, envVars>>

(* The record lists and filter settings of a render *)

\* a complete profile with a score and the label A, CV in English
RowBob ==
  [NoRecord EXCEPT !.full_name = Some(<<"B", "o", "b">>), !.file_name = Some(<<"b", "o", "b", ".", "p", "d", "f">>),
     !.degree_level = Some(<<"M", "a", "s", "t", "e", "r">>), !.field_of_study = Some(<<"D", "a", "t", "a", " ", "S", "c", "i", "e", "n", "c", "e">>),
     !.total_experience_years = Num(4), !.speaks_english = Some(TRUE),
     !.score_profil = Num(85), !.profile_type = Some(<<"A">>),
     !.cv_language = Some(<<"e", "n">>)]
\* a usable record with score 60 and the label in lower case
RowAlice ==
  [NoRecord EXCEPT !.full_name = Some(<<"a", "l", "i", "c", "e">>), !.last_job_title = Some(<<"D", "e", "v">>),
     !.score_profil = Num(60), !.profile_type = Some(<<"b">>),
     !.cv_language = Some(<<"f", "r">>)]
\* a usable record without score and without label
RowCarl ==
  [NoRecord EXCEPT !.full_name = Some(<<"C", "a", "r", "l">>), !.last_job_title = Some(<<"D", "e", "v">>)]
\* a usable record with score 0, to be reviewed
RowDan ==
  [NoRecord EXCEPT !.full_name = Some(<<"D", "a", "n">>), !.last_job_title = Some(<<"D", "e", "v">>),
     !.total_experience_years = Num(2),
     !.score_profil = Num(0), !.profile_type = Some(<<"<A-grave>", " ", "r", "e", "v", "o", "i", "r">>),
     !.cv_language = Some(<<"e", "n", "-", "U", "S">>)]
\* an unreadable CV as the pipeline stores it, with a label and a score
RowUnreadable ==
  [NoRecord EXCEPT !.full_name = Some(INVALID_LABEL),
     !.notes = Some(<<"C", "V", " ", "n", "o", "n", " ", "l", "i", "s", "i", "b", "l", "e">>), !.score_profil = Num(45),
     !.profile_type = Some(<<"C">>)]
\* nothing extracted, but a stored label
RowLabelOnly == [NoRecord EXCEPT !.profile_type = Some(<<"B">>)]

ListRecords == { RowBob, RowAlice, RowCarl, RowDan, RowUnreadable, RowLabelOnly }

\* the lists of at most MaxListLen records
Lists == UNION { [1..n -> ListRecords] : n \in 0..MaxListLen }

Searches == { <<>>, <<" ", "A", "L">> }

----------------------------------------------------------------------------
(* part_001: the CV modal, openCv and createSignedUrlIfNeeded *)

\* process.env.NEXT_PUBLIC_CV_BUCKET || "cvs"
BUCKET == <<"c", "v", "s">>

\* /^https?:\/\//i.test(s)
isHttpUrl(str) ==
  \/ startsWith(toLowerCase(str), <<"h", "t", "t", "p", ":", "/", "/">>)
  \/ startsWith(toLowerCase(str), <<"h", "t", "t", "p", "s", ":", "/", "/">>)

\* strips every leading "<bucket>/"
RECURSIVE cleaned_everyPrefix(_, _)
cleaned_everyPrefix(pathOrUrl, bucket) ==
  IF startsWith(pathOrUrl, bucket \o <<"/">>)
  THEN cleaned_everyPrefix(SubSeq(pathOrUrl, Len(bucket) + 2, Len(pathOrUrl)), bucket)
  ELSE pathOrUrl

\* pathOrUrl.startsWith(bucket + "/") ? pathOrUrl.slice((bucket + "/").length) : pathOrUrl
cleaned(pathOrUrl, bucket) ==
  IF startsWith(pathOrUrl, bucket \o <<"/">>)
  THEN SubSeq(pathOrUrl, Len(bucket \o <<"/">>) + 1, Len(pathOrUrl))
  ELSE pathOrUrl

\* the expiry of a signed URL, in seconds
expiresIn == 60 * 15

\* supabase.storage.from(bucket).createSignedUrl(cleaned, 60 * 15)
createSignedUrl(pathOrUrl, bucket) ==
  [bucket |-> bucket, path |-> cleaned(pathOrUrl, bucket), expiresIn |-> expiresIn]

\* data.signedUrl of the file store's answer to a request
signedUrl(signing) == <<"h", "t", "t", "p", "s", ":", "/", "/", "s", "t", "o", "r", "e", "/", "s", "i", "g", "n", "/">> \o signing.bucket \o <<"/">> \o signing.path

\* a || b of two strings
either(a, b) == IF a # <<>> THEN a ELSE b

\* norm(row.cv_url) || norm(row.file_name)
candidatePathOrUrl(row) == either(P1_norm(row.cv_url), P1_norm(row.file_name))

\* `${name} — ${file}`
titleOf(row) ==
  either(P1_norm(row.full_name), <<"C", "a", "n", "d", "i", "d", "a", "t">>) \o <<" ", "<em-dash>", " ">>
    \o either(P1_norm(row.file_name), <<"C", "V">>)

\* the rows whose CV can be asked for
CvRows ==
  { [NoRecord EXCEPT !.full_name = n, !.cv_url = u, !.file_name = f] :
      n \in { Some(<<"B", "o", "b">>) },
      u \in { Null, Some(<<" ">>), Some(<<"h", "t", "t", "p", "s", ":", "/", "/", "x", ".", "i", "o", "/", "a", ".", "p", "d", "f">>), Some(<<"c", "v", "s", "/", "a", ".", "p", "d", "f">>),
              Some(<<"c", "v", "s", "/", "c", "v", "s", "/", "a", ".", "p", "d", "f">>) },
      f \in { Null, Some(<<"b", ".", "d", "o", "c", "x">>) } }

\* an openCv call as the history keeps it
Call(ref, signing, outcome, result) ==
  [ref |-> ref, req |-> signing, outcome |-> outcome, result |-> result]

\* the history with the outcome of call i filled in
Outcome(i, outcome, result) ==
  [cvCalls EXCEPT ![i].outcome = outcome, ![i].result = result]

\* the button of a row: openCv(row). The modal, once open, covers the table.
OpenCv(row) ==
  /\ variant = "part_001"
  /\ ~cvOpen
  /\ Len(cvCalls) < MaxOpens
  /\ cvOpen' = TRUE
  /\ cvTitle' = titleOf(row)
  /\ LET ref == candidatePathOrUrl(row)
     IN  IF ref = <<>>
         THEN \* no reference: setCvUrl(null); setCvLoading(false); return
              /\ cvUrl' = Null
              /\ cvLoading' = FALSE
              /\ cvCalls' = Append(cvCalls, Call(ref, Null, "missing", Null))
              /\ UNCHANGED opens
         ELSE IF isHttpUrl(ref)
         THEN \* createSignedUrlIfNeeded returns the reference itself: the
              \* await resumes before any other event
              /\ cvUrl' = Some(ref)
              /\ cvLoading' = FALSE
              /\ cvCalls' = Append(cvCalls, Call(ref, Null, "given", Some(ref)))
              /\ UNCHANGED opens
         ELSE \* suspended at the await of createSignedUrl
              /\ cvUrl' = Null
              /\ cvLoading' = TRUE
              /\ cvCalls' = Append(cvCalls,
                   Call(ref, Some(createSignedUrl(ref, BUCKET)), "pending", Null))
              /\ opens' = opens \cup { Len(cvCalls) + 1 }
  /\ UNCHANGED <<fetchVars, filterVars, classVars, memo, envVars>>

\* the file store answers call i with a signed URL
SignOk(i) ==
  /\ i \in opens
  /\ cvUrl' = Some(signedUrl(cvCalls[i].req[1]))
  /\ cvLoading' = FALSE
  /\ opens' = opens \ {i}
  /\ cvCalls' = Outcome(i, "signed", Some(signedUrl(cvCalls[i].req[1])))
  /\ UNCHANGED <<fetchVars, filterVars, classVars, memo, cvOpen, cvTitle, envVars>>

\* the file store answers call i with an error: createSignedUrlIfNeeded
\* returns null
SignError(i) ==
  /\ i \in opens
  /\ cvUrl' = Null
  /\ cvLoading' = FALSE
  /\ opens' = opens \ {i}
  /\ cvCalls' = Outcome(i, "error", Null)
  /\ UNCHANGED <<fetchVars, filterVars, classVars, memo, cvOpen, cvTitle, envVars>>

\* the signing call of call i throws: only the finally block of openCv runs
SignThrow(i) ==
  /\ i \in opens
  /\ cvLoading' = FALSE
  /\ opens' = opens \ {i}
  /\ cvCalls' = Outcome(i, "threw", Null)
  /\ UNCHANGED <<fetchVars, filterVars, classVars, memo, cvOpen, cvTitle, cvUrl, envVars>>

\* the Fermer button of the modal: onClose
CloseCv ==
  /\ variant = "part_001"
  /\ cvOpen
  /\ cvOpen' = FALSE
  /\ cvUrl' = Null
  /\ cvTitle' = <<>>
  /\ UNCHANGED <<fetchVars, filterVars, classVars, memo, cvLoading, opens, cvCalls, envVars>>

----------------------------------------------------------------------------
(* part_000: the HTTP gate (middleware and its matcher) *)

\* String.prototype.split with a separator of one character
RECURSIVE split(_, _)
split(str, sep) ==
  IF \A i \in DOMAIN str : str[i] # sep THEN << str >>
  ELSE LET i == CHOOSE k \in DOMAIN str : str[k] = sep /\ \A j \in 1..(k - 1) : str[j] # sep
       IN  << SubSeq(str, 1, i - 1) >> \o split(SubSeq(str, i + 1, Len(str)), sep)

\* element i of an array destructuring: undefined past the end
at(arr, i) == IF i <= Len(arr) THEN Some(arr[i]) ELSE Null

\* the base64 alphabet, value 0 first
Base64Alphabet == 
  <<"A", "B", "C", "D", "E", "F", "G", "H", "I", "J", "K", "L", "M", "N", "O", "P",
    "Q", "R", "S", "T", "U", "V", "W", "X", "Y", "Z", "a", "b", "c", "d", "e", "f",
    "g", "h", "i", "j", "k", "l", "m", "n", "o", "p", "q", "r", "s", "t", "u", "v",
    "w", "x", "y", "z", "0", "1", "2", "3", "4", "5", "6", "7", "8", "9", "+", "/">>

\* the characters of code 32 to 126, code 32 first
Latin1 == 
  <<" ", "!", "<quote>", "#", "$", "%", "&", "'", "(", ")", "*", "+", ",", "-", ".", "/",
    "0", "1", "2", "3", "4", "5", "6", "7", "8", "9", ":", ";", "<", "=", ">", "?",
    "@", "A", "B", "C", "D", "E", "F", "G", "H", "I", "J", "K", "L", "M", "N", "O",
    "P", "Q", "R", "S", "T", "U", "V", "W", "X", "Y", "Z", "[", "<backslash>", "]", "^", "_",
    "<backtick>", "a", "b", "c", "d", "e", "f", "g", "h", "i", "j", "k", "l", "m", "n", "o",
    "p", "q", "r", "s", "t", "u", "v", "w", "x", "y", "z", "{", "|", "}", "~">>

\* the character of a byte
fromCharCode(b) == IF b \in 32..126 THEN Latin1[b - 31] ELSE "<byte " \o ToString(b) \o ">"

\* the value of a character of the base64 alphabet
base64Value(c) == (CHOOSE i \in DOMAIN Base64Alphabet : Base64Alphabet[i] = c) - 1

\* the bytes of base64 text without padding: 4 characters give 3 bytes, a
\* rest of 3 gives 2 bytes and a rest of 2 gives 1 byte, spare bits dropped
RECURSIVE base64Bytes(_)
base64Bytes(d) ==
  IF Len(d) >= 4
  THEN LET n == base64Value(d[1]) * 262144 + base64Value(d[2]) * 4096
                  + base64Value(d[3]) * 64 + base64Value(d[4])
       IN  << fromCharCode(n \div 65536), fromCharCode((n \div 256) % 256), fromCharCode(n % 256) >>
             \o base64Bytes(SubSeq(d, 5, Len(d)))
  ELSE IF Len(d) = 3
  THEN LET n == base64Value(d[1]) * 4096 + base64Value(d[2]) * 64 + base64Value(d[3])
       IN  << fromCharCode(n \div 1024), fromCharCode((n \div 4) % 256) >>
  ELSE IF Len(d) = 2
  THEN LET n == base64Value(d[1]) * 64 + base64Value(d[2])
       IN  << fromCharCode(n \div 16) >>
  ELSE <<>>

\* atob(data): ASCII whitespace is removed, one or two "=" are removed from
\* the end of data whose length is a multiple of 4, and data of length 1
\* modulo 4 or with a character outside the alphabet throws
atob(data) ==
  LET d1 == SelectSeq(data, LAMBDA c : c \notin WhiteSpace)
      d2 == IF Len(d1) % 4 = 0 /\ Len(d1) >= 2 /\ d1[Len(d1)] = "=" /\ d1[Len(d1) - 1] = "="
            THEN SubSeq(d1, 1, Len(d1) - 2)
            ELSE IF Len(d1) % 4 = 0 /\ Len(d1) >= 1 /\ d1[Len(d1)] = "="
            THEN SubSeq(d1, 1, Len(d1) - 1)
            ELSE d1
  IN  IF Len(d2) % 4 = 1 \/ \E i \in DOMAIN d2 : \A k \in DOMAIN Base64Alphabet : Base64Alphabet[k] # d2[i]
      THEN [threw |-> TRUE, value |-> <<>>]
      ELSE [threw |-> FALSE, value |-> base64Bytes(d2)]

\* NextResponse.next()
NextResponse_next == [kind |-> "next", status |-> Null, challenge |-> Null]

\* new NextResponse("Authentication required", { status: 401, headers: ... })
AuthenticationRequired ==
  [kind |-> "response", status |-> Some(401), challenge |-> Some("Basic realm=<quote>CV Dashboard<quote>")]

\* the middleware function does not return: atob threw
MiddlewareThrew == [kind |-> "throws", status |-> Null, challenge |-> Null]

\* the request does not reach the middleware
NotMatched == [kind |-> "exempt", status |-> Null, challenge |-> Null]

\* middleware without the test of username and password
middleware_noConfigCheck(request, e) ==
  LET basicAuth == request.authorization
      username == e.BASIC_AUTH_USER
      password == e.BASIC_AUTH_PASSWORD
      parts == split(basicAuth[1], " ")
      decoded == atob(at(parts, 2)[1])
      userPass == split(decoded.value, ":")
  IN  IF ~truthy(basicAuth) THEN AuthenticationRequired
      ELSE IF ~(at(parts, 1) = Some(<<"B", "a", "s", "i", "c">>) /\ truthy(at(parts, 2))) THEN AuthenticationRequired
      ELSE IF decoded.threw THEN MiddlewareThrew
      ELSE IF at(userPass, 1) = username /\ at(userPass, 2) = password THEN NextResponse_next
      ELSE AuthenticationRequired

\* middleware(req)
middleware(request, e) ==
  LET basicAuth == request.authorization
      username == e.BASIC_AUTH_USER
      password == e.BASIC_AUTH_PASSWORD
  IN  IF truthy(basicAuth) /\ truthy(username) /\ truthy(password)
      THEN LET parts == split(basicAuth[1], " ")
               scheme == at(parts, 1)
               encoded == at(parts, 2)
           IN  IF scheme = Some(<<"B", "a", "s", "i", "c">>) /\ truthy(encoded)
               THEN LET decoded == atob(encoded[1])
                        userPass == split(decoded.value, ":")
                        user == at(userPass, 1)
                        pass == at(userPass, 2)
                    IN  IF decoded.threw THEN MiddlewareThrew
                        ELSE IF user = username /\ pass = password
                        THEN NextResponse_next
                        ELSE AuthenticationRequired
               ELSE AuthenticationRequired
      ELSE AuthenticationRequired

\* text matches a regular expression of plain characters and "." at its start
matchesAhead(text, pattern) ==
  /\ Len(text) >= Len(pattern)
  /\ \A i \in DOMAIN pattern : pattern[i] = "." \/ text[i] = pattern[i]

\* config.matcher: "/((?!_next/static|_next/image|favicon.ico|robots.txt).*)"
matcher(path) ==
  /\ path # <<>> /\ path[1] = "/"
  /\ \A pattern \in { <<"_", "n", "e", "x", "t", "/", "s", "t", "a", "t", "i", "c">>, <<"_", "n", "e", "x", "t", "/", "i", "m", "a", "g", "e">>, <<"f", "a", "v", "i", "c", "o", "n", ".", "i", "c", "o">>, <<"r", "o", "b", "o", "t", "s", ".", "t", "x", "t">> } :
       ~matchesAhead(SubSeq(path, 2, Len(path)), pattern)

\* the request paths
Paths == { <<"/">>, <<"/", "l", "o", "t", "/", "L", "O", "T", "2">>, <<"/", "_", "n", "e", "x", "t", "/", "s", "t", "a", "t", "i", "c", "/", "a", ".", "j", "s">>, <<"/", "r", "o", "b", "o", "t", "s", ".", "t", "x", "t">> }

\* the Authorization headers: none, the credentials u:p, u:p:x, u:q, v:p, ":"
\* and "u" under the Basic scheme, other schemes and spellings, text that is
\* not base64, credentials after two spaces and credentials followed by more
Authorizations ==
  { Null,
    Some(<<"B", "a", "s", "i", "c", " ", "d", "T", "p", "w">>), Some(<<"B", "a", "s", "i", "c", " ", "d", "T", "p", "w", "O", "n", "g", "=">>), Some(<<"B", "a", "s", "i", "c", " ", "d", "T", "p", "x">>), Some(<<"B", "a", "s", "i", "c", " ", "d", "j", "p", "w">>),
    Some(<<"B", "a", "s", "i", "c", " ", "O", "g", "=", "=">>), Some(<<"B", "a", "s", "i", "c", " ", "d", "Q", "=", "=">>), Some(<<"B", "e", "a", "r", "e", "r", " ", "d", "T", "p", "w">>), Some(<<"b", "a", "s", "i", "c", " ", "d", "T", "p", "w">>),
    Some(<<"B", "a", "s", "i", "c">>), Some(<<"B", "a", "s", "i", "c", " ", "!", "!", "!">>), Some(<<"B", "a", "s", "i", "c", " ", " ", "d", "T", "p", "w">>), Some(<<"B", "a", "s", "i", "c", " ", "d", "T", "p", "w", " ", "x">>),
    Some(<<"d", "T", "p", "w">>) }

\* the requests at the gate
Requests == [path : Paths, authorization : Authorizations]

\* the settings of BASIC_AUTH_USER and BASIC_AUTH_PASSWORD
AuthUsers == { Null, Some(<<>>), Some(<<"u">>) }
AuthPasswords == { Null, Some(<<>>), Some(<<"p">>), Some(<<"p", ":", "x">>) }

\* an environment with every option set
Configured ==
  [ BASIC_AUTH_USER |-> Some(<<"u">>), BASIC_AUTH_PASSWORD |-> Some(<<"p">>),
    NEXT_PUBLIC_SUPABASE_URL |-> Some(<<"h", "t", "t", "p", "s", ":", "/", "/", "d", "b">>), SUPABASE_URL |-> Some(<<"h", "t", "t", "p", "s", ":", "/", "/", "d", "b", "2">>),
    SUPABASE_SERVICE_ROLE_KEY |-> Some(<<"s", "k">>), SUPABASE_SERVICE_ROLE |-> Some(<<"s", "k", "2">>),
    NEXT_PUBLIC_SUPABASE_ANON_KEY |-> Some(<<"a", "k">>) ]

\* the gate handles the request: the middleware runs on the matched paths
Gate ==
  /\ res = Null
  /\ res' = Some(IF matcher(req.path) THEN middleware(req, env) ELSE NotMatched)
  /\ UNCHANGED <<fetchVars, filterVars, classVars, memo, cvVars, env, req, admin, client, screen>>

----------------------------------------------------------------------------
(* part_000: the admin client module; part_002: the configuration test *)

\* the module is evaluated: it throws, or exports supabaseAdmin
LoadAdmin ==
  /\ admin = Null
  /\ admin' = IF ~truthy(adminUrl(env)) \/ ~truthy(serviceKey(env))
              THEN Some([threw |-> TRUE, supabaseAdmin |-> Null])
              ELSE Some([threw |-> FALSE,
                         supabaseAdmin |-> Some(createClient(adminUrl(env), serviceKey(env)))])
  /\ UNCHANGED <<fetchVars, filterVars, classVars, memo, cvVars, env, req, res, client, screen>>

\* a render of Dashboard with the lot prop l that returns the "Configuration
\* manquante" screen before any hook
P2ConfigMissing(l) ==
  /\ variant = "part_002"
  /\ P2_configMissing(env)
  /\ screen = "none" \/ l # lot
  /\ lot' = l
  /\ screen' = "config"
  /\ UNCHANGED <<variant, store, tab, activeTab, loading, errorMsg, rows, allCandidates, profilCible,
                 cvAnglais, fetches, seq, latest, ended, src, filterVars, classVars, memo, cvVars,
                 env, req, res, admin, client>>

\* the settings of the data store options
StoreEnvs ==
  { [Configured EXCEPT !.NEXT_PUBLIC_SUPABASE_URL = u, !.SUPABASE_URL = u2,
                       !.SUPABASE_SERVICE_ROLE_KEY = k, !.SUPABASE_SERVICE_ROLE = k2,
                       !.NEXT_PUBLIC_SUPABASE_ANON_KEY = a] :
      u \in { Null, Some(<<>>), Some(<<"h", "t", "t", "p", "s", ":", "/", "/", "d", "b">>) },
      u2 \in { Null, Some(<<"h", "t", "t", "p", "s", ":", "/", "/", "d", "b", "2">>) },
      k \in { Null, Some(<<"s", "k">>) },
      k2 \in { Null, Some(<<"s", "k", "2">>) },
      a \in { Null, Some(<<>>), Some(<<"a", "k">>) } }

----------------------------------------------------------------------------
(* The specifications *)

\* the state of a component before its effects have run
Constructed ==
  /\ tab = "all"
  /\ activeTab = "tous"
  /\ errorMsg = Null
  /\ rows = <<>>
  /\ allCandidates = <<>>
  /\ profilCible = <<>>
  /\ cvAnglais = <<>>
  /\ search = <<>>
  /\ profileFilter = "ALL"
  /\ hideUnusable = FALSE
  /\ sortKey = "name"
  /\ fetches = {}
  /\ seq = 0
  /\ latest = NoLatest
  /\ ended = NoFetch
  /\ src = [allCandidates |-> 0, profilCible |-> 0, cvAnglais |-> 0]
  /\ memo = Null
  /\ cvOpen = FALSE
  /\ cvTitle = <<>>
  /\ cvUrl = Null
  /\ cvLoading = FALSE
  /\ opens = {}
  /\ cvCalls = <<>>
  /\ client = Null
  /\ screen = "none"

\* every option of process.env is set, no request is at the gate and the
\* admin client module is not loaded
Deployed ==
  /\ env = Configured
  /\ req = [path |-> <<"/">>, authorization |-> Null]
  /\ res = Null
  /\ admin = Null

\* one of the components, mounted on a store
InitOf(variants) ==
  /\ variant \in variants
  /\ store \in Stores
  /\ lot = (IF variant = "HomePage" THEN AnyLot ELSE "LOT1")
  /\ loading = (variant = "part_002")
  /\ Constructed
  /\ Deployed
  /\ r = NoRecord
  /\ cls = Null

\* the paginated fetchers: part_001 and part_002
Init == InitOf({"part_001", "part_002"})
Next == P1Next \/ P2Next
Spec == Init /\ [][Next]_vars

\* the three-view loadData: components/Dashboard.tsx and app/page.tsx
InitLoad == InitOf({"Dashboard", "HomePage"})
NextLoad == DNext \/ HNext
SpecLoad == InitLoad /\ [][NextLoad]_vars

\* the classifiers, on every record of Records
InitClassify ==
  /\ variant = "none"
  /\ store = [l \in Lots |-> 0]
  /\ lot = "LOT1"
  /\ loading = FALSE
  /\ Constructed
  /\ Deployed
  /\ r \in Records
  /\ cls = Null
NextClassify == Classify
SpecClassify == InitClassify /\ [][NextClassify]_vars

\* what is constant while record lists are rendered
NoFetching ==
  /\ store = [l \in Lots |-> 0]
  /\ lot = "LOT1"
  /\ loading = FALSE
  /\ errorMsg = Null
  /\ activeTab = "tous"
  /\ fetches = {}
  /\ seq = 0
  /\ latest = NoLatest
  /\ ended = NoFetch
  /\ src = [allCandidates |-> 0, profilCible |-> 0, cvAnglais |-> 0]
  /\ r = NoRecord
  /\ cls = Null
  /\ memo = Null
  /\ cvOpen = FALSE
  /\ cvTitle = <<>>
  /\ cvUrl = Null
  /\ cvLoading = FALSE
  /\ opens = {}
  /\ cvCalls = <<>>
  /\ client = Null
  /\ screen = "none"
  /\ Deployed

\* a render of a list of records under some filter settings
InitList ==
  /\ NoFetching
  /\ hideUnusable \in BOOLEAN
  /\ search \in Searches
  /\ \/ /\ variant = "part_002"
        /\ rows \in Lists
        /\ allCandidates = <<>> /\ profilCible = <<>> /\ cvAnglais = <<>>
        /\ tab = "all"
        /\ profileFilter \in P2_Bands
        /\ sortKey \in P2_SortKeys
     \/ /\ variant = "part_001"
        /\ rows \in Lists
        /\ allCandidates = <<>> /\ profilCible = <<>> /\ cvAnglais = <<>>
        /\ tab \in Tabs
        /\ profileFilter \in P1_Profiles
        /\ sortKey \in P1_SortKeys
     \/ /\ variant = "Dashboard"
        /\ rows = <<>>
        /\ allCandidates \in Lists
        /\ profilCible = <<>> /\ cvAnglais = <<>>
        /\ tab = "all"
        /\ profileFilter \in D_Profiles
        /\ sortKey \in D_SortKeys
NextList == P1Render \/ P2Render \/ DRender
SpecList == InitList /\ [][NextList]_vars

\* the label normalisers and the subset predicates, on every record of Candidates
InitSubsets ==
  /\ variant = "subsets"
  /\ tab = "all"
  /\ rows = <<>> /\ allCandidates = <<>> /\ profilCible = <<>> /\ cvAnglais = <<>>
  /\ search = <<>>
  /\ profileFilter = "ALL"
  /\ hideUnusable = FALSE
  /\ sortKey = "name"
  /\ store = [l \in Lots |-> 0]
  /\ lot = "LOT1"
  /\ loading = FALSE
  /\ errorMsg = Null
  /\ activeTab = "tous"
  /\ fetches = {}
  /\ seq = 0
  /\ latest = NoLatest
  /\ ended = NoFetch
  /\ src = [allCandidates |-> 0, profilCible |-> 0, cvAnglais |-> 0]
  /\ memo = Null
  /\ cvOpen = FALSE
  /\ cvTitle = <<>>
  /\ cvUrl = Null
  /\ cvLoading = FALSE
  /\ opens = {}
  /\ cvCalls = <<>>
  /\ client = Null
  /\ screen = "none"
  /\ Deployed
  /\ r \in Candidates
  /\ cls = Null
NextSubsets == Derive
SpecSubsets == InitSubsets /\ [][NextSubsets]_vars

\* the CV modal of part_001 over loaded rows
InitCv ==
  /\ variant = "part_001"
  /\ store = [l \in Lots |-> 0]
  /\ lot = "LOT1"
  /\ loading = FALSE
  /\ Constructed
  /\ Deployed
  /\ r = NoRecord
  /\ cls = Null
NextCv ==
  \/ \E row \in CvRows : OpenCv(row)
  \/ \E i \in opens : SignOk(i)
  \/ \E i \in opens : SignError(i)
  \/ \E i \in opens : SignThrow(i)
  \/ CloseCv
SpecCv == InitCv /\ [][NextCv]_vars

\* the lists of at most MaxListLen records out of two, one of them unreadable
ShortLists == UNION { [1..n -> { RowBob, RowUnreadable }] : n \in 0..MaxListLen }

\* a component that holds a list of records, and its filter bar
InitFilter ==
  /\ NoFetching
  /\ variant \in {"part_001", "part_002", "Dashboard", "HomePage"}
  /\ tab = "all"
  /\ search = <<>>
  /\ profileFilter = (IF variant \in {"part_001", "part_002"} THEN "ALL" ELSE "all")
  /\ hideUnusable = FALSE
  /\ sortKey = "name"
  /\ IF variant \in {"part_001", "part_002"}
     THEN rows \in ShortLists /\ allCandidates = <<>>
     ELSE rows = <<>> /\ allCandidates \in ShortLists
  /\ profilCible = <<>>
  /\ cvAnglais = <<>>
NextFilter ==
  \/ P1Render
  \/ P2Render
  \/ DRender
  \/ HRender
  \/ \E t \in Tabs, text \in Searches, pf \in {"ALL", "A", "C"}, hide \in BOOLEAN,
        key \in {"name", "score_desc"} : P1Filter(t, text, pf, hide, key)
  \/ \E text \in Searches, pf \in P2_Bands, hide \in BOOLEAN, key \in P2_SortKeys :
       P2Filter(text, pf, hide, key)
  \/ \E text \in Searches, pf \in D_Profiles, hide \in BOOLEAN, key \in D_SortKeys :
       DFilter(text, pf, hide, key)
  \/ \E text \in Searches, pf \in D_Profiles, hide \in BOOLEAN : HFilter(text, pf, hide)
SpecFilter == InitFilter /\ [][NextFilter]_vars

\* part_001 with its fetches, its filter bar and its CV modal
InitP1 ==
  /\ variant = "part_001"
  /\ store = [l \in Lots |-> 1]
  /\ lot = "LOT1"
  /\ loading = FALSE
  /\ Constructed
  /\ Deployed
  /\ r = NoRecord
  /\ cls = Null
NextP1 ==
  \/ P1Next
  \/ \E t \in Tabs, text \in Searches, pf \in {"ALL", "A"}, hide \in BOOLEAN,
        key \in {"name", "score_desc"} : P1Edit(t, text, pf, hide, key)
  \/ OpenCv([NoRecord EXCEPT !.full_name = Some(<<"B", "o", "b">>),
                             !.cv_url = Some(<<"h", "t", "t", "p", "s", ":", "/", "/", "x", ".", "i", "o", "/", "a", ".", "p", "d", "f">>)])
  \/ CloseCv
SpecP1 == InitP1 /\ [][NextP1]_vars

\* the fetchers of the sources of the claims on retries and on the loading flag
InitFetchers == InitOf({"part_001", "part_002", "Dashboard"})
NextFetchers == P1Next \/ P2Next \/ DNext
SpecFetchers == InitFetchers /\ [][NextFetchers]_vars

\* the HTTP gate, on every request of Requests under every setting of the
\* shared credentials
InitGate ==
  /\ variant = "none"
  /\ store = [l \in Lots |-> 0]
  /\ lot = "LOT1"
  /\ loading = FALSE
  /\ Constructed
  /\ r = NoRecord
  /\ cls = Null
  /\ env \in { [Configured EXCEPT !.BASIC_AUTH_USER = u, !.BASIC_AUTH_PASSWORD = p] :
                 u \in AuthUsers, p \in AuthPasswords }
  /\ req \in Requests
  /\ res = Null
  /\ admin = Null
NextGate == Gate
SpecGate == InitGate /\ [][NextGate]_vars

\* the view-backed Dashboard and the admin client module under every setting
\* of the data store options
InitConfig ==
  /\ variant = "part_002"
  /\ store = [l \in Lots |-> 1]
  /\ lot = "LOT1"
  /\ loading = TRUE
  /\ Constructed
  /\ r = NoRecord
  /\ cls = Null
  /\ env \in StoreEnvs
  /\ req = [path |-> <<"/">>, authorization |-> Null]
  /\ res = Null
  /\ admin = Null
NextConfig ==
  \/ P2Next
  \/ \E l \in Lots : P2ConfigMissing(l)
  \/ LoadAdmin
SpecConfig == InitConfig /\ [][NextConfig]_vars

----------------------------------------------------------------------------
(* Claims about the paginated fetchers (specification Spec) *)

Ids(list) == { list[k] : k \in DOMAIN list }

Logs == { f.log : f \in fetches } \cup { ended.log }

\* C1: when an invocation of the paginated fetcher has returned normally, rows
\* is exactly the list of the store's records of its batch (in its view): the
\* count is the store's true count and the ids have no repeats and no gaps,
\* however many pages were needed.
C1_FetchesWholeBatch ==
  ended.pc = "done" =>
    /\ rows = ViewRowsFor(ended.view, ended.batch)
    /\ Len(rows) = ViewCount(ended.view, ended.batch)
    /\ Cardinality(Ids(rows)) = Len(rows)
    /\ Ids(rows) = { Rec(ended.batch, k * ViewStride(ended.view)) :
                       k \in 1..ViewCount(ended.view, ended.batch) }

\* C1 witness: a fetch that needed two pages has returned
C1_Witness ==
  /\ ended.pc = "done"
  /\ Len(ended.log) = 2
  /\ Len(rows) = pageSize + 200

\* C3: the requests of an invocation are the contiguous ranges
\* [k*P, k*P+P-1], k = 0, 1, 2, ...; page k+1 is requested if and only if page
\* k came back with exactly P rows; the loop makes at most (count div P) + 1
\* requests and so terminates; 1,200 records give exactly the two requests
\* 0-999 (1,000 rows) and 1000-1999 (the 200 rows 1000-1199), and an exact
\* multiple of P ends with one request that returns an empty page.
C3_PageRequests ==
  /\ \A log \in Logs :
       /\ \A k \in DOMAIN log :
            /\ log[k].from = (k - 1) * pageSize
            /\ log[k].to = (k - 1) * pageSize + pageSize - 1
       /\ \A k \in 1..(Len(log) - 1) : log[k].got = pageSize
       /\ Len(log) > 0 => log[Len(log)].got # pageSize
  /\ \A f \in fetches : Len(f.log) <= (ViewCount(f.view, f.batch) \div pageSize) + 1
  /\ ended.pc = "done" =>
       LET n == ViewCount(ended.view, ended.batch)
           log == ended.log
       IN  /\ Len(log) = (n \div pageSize) + 1
           /\ log[Len(log)].got = n % pageSize
           /\ n = 1200 =>
                log = << [view |-> ended.view, from |-> 0, to |-> 999, got |-> 1000],
                         [view |-> ended.view, from |-> 1000, to |-> 1999, got |-> 200] >>
           /\ (n > 0 /\ n % pageSize = 0) => log[Len(log)].got = 0

\* C3 witness: the fetch of a batch of 1,200 records has returned
C3_Witness ==
  /\ ended.pc = "done"
  /\ ViewCount(ended.view, ended.batch) = 1200
  /\ Len(ended.log) = 2

\* C4: if a fetch was triggered while an earlier one was in flight, then once
\* all have completed rows holds what the most recently triggered fetch
\* returned.
C4_LatestFetchWins ==
  (fetches = {} /\ latest.conc /\ latest.pc = "done") =>
    rows = ViewRowsFor(latest.view, latest.batch)

\* the step in which an invocation ends in its catch block
FailStep == ended' # ended /\ ended'.pc = "failed"

\* C5: the failure of a page request (the first or a later one) ends the
\* invocation with no further page requested, sets a non-null error message
\* and loading = false, and stores no partial accumulation: part_001 does not
\* touch rows (rows change only when an invocation returns normally, so they
\* stay as they were before the failed fetch unless another fetch returned
\* meanwhile), part_002 sets rows to the empty list.
C5_FailureAborts ==
  [][ /\ FailStep =>
           /\ errorMsg' # Null
           /\ loading' = FALSE
           /\ ended'.log[Len(ended'.log)].got = Failed
           /\ \A f \in fetches' : f.id # ended'.id
           /\ fetches' \subseteq fetches
           /\ variant = "part_001" => rows' = rows
           /\ variant = "part_002" => rows' = <<>>
      /\ (variant = "part_001" /\ rows' # rows) =>
           (ended' # ended /\ ended'.pc = "done")
    ]_vars

\* C5 witness: an invocation has failed on its second page request
C5_Witness ==
  /\ ended.pc = "failed"
  /\ Len(ended.log) = 2
  /\ ended.log[1].got = pageSize

----------------------------------------------------------------------------
(* Claims about the three-view loadData (specification SpecLoad) *)

NoError(log) == \A k \in DOMAIN log : log[k].got # Failed

\* C2: Dashboard.loadData does not truncate: after a load whose three queries
\* succeeded, each list holds all the rows its view has for the lot, also when
\* the view has more rows than the store delivers per request.
C2_LoadDataNotTruncated ==
  (variant = "Dashboard" /\ fetches = {} /\ seq = 1 /\ ended.pc = "done"
     /\ NoError(ended.log)) =>
    /\ allCandidates = ViewRows(VIEW_ALL, lot)
    /\ profilCible = ViewRows(VIEW_TARGET, lot)
    /\ cvAnglais = ViewRows(VIEW_ENGLISH, lot)

\* the lists a load writes after its k-th query
ListsAfter(k) == { ListOf(Views[j]) : j \in (k + 1)..Len(Views) }

\* C6: once a view query of a load has returned an error, the load issues no
\* later view query and overwrites no record list, and the error message is
\* shown (until the next load starts).
C6_LoadAbortsOnError ==
  /\ \A f \in fetches \cup {ended} :
       \A k \in DOMAIN f.log :
         f.log[k].got = Failed =>
           /\ k = Len(f.log)
           /\ \A l \in ListsAfter(k) : src[l] # f.id
  /\ (ended.pc = "done" /\ ended.id = seq /\ ~NoError(ended.log)) => errorMsg # Null

\* C7: in components/Dashboard.tsx, whenever no load is in flight, every row of
\* allCandidates, profilCible and cvAnglais belongs to the selected lot and the
\* three lists were written by the same load.
C7_ListsOfOneBatch ==
  (variant = "Dashboard" /\ fetches = {}) =>
    /\ \A row \in Ids(allCandidates) \cup Ids(profilCible) \cup Ids(cvAnglais) :
         cv_batch(row) = lot
    /\ src.allCandidates = src.profilCible
    /\ src.profilCible = src.cvAnglais

----------------------------------------------------------------------------
(* Claims about the classifiers (SpecClassify) *)

Classified == cls # Null

\* empty after trimming
Blank(v) == trim(StringOrEmpty(v)) = <<>>

\* zero or unknown
NoExperience(x) == x.kind = "null" \/ (x.kind = "num" /\ x.v = 0)

HasMarker(v, markers) ==
  \E phrase \in markers : includes(toLowerCase(StringOrEmpty(v)), phrase)

\* the definition of "unusable" the classifier is specified by
NothingExtracted(row, markers) ==
  /\ Blank(row.full_name)
  /\ Blank(row.degree_level)
  /\ Blank(row.field_of_study)
  /\ Blank(row.last_job_title)
  /\ NoExperience(row.total_experience_years)
  /\ ~HasMarker(row.notes, markers)

(* C8: a record is classified unusable exactly when its name, degree, field *)
(* of study and last job title are all blank after trimming, its experience *)
(* is zero or unknown and its notes do not contain the unreadable marker;   *)
(* with any of these signals present it is usable. Stated of both           *)
(* classifiers, each with the marker phrases it looks for.                  *)
C8_UsabilityClassifier ==
  Classified =>
    /\ cls[1].looksLikeUnusable = NothingExtracted(r, {<<"n", "o", "n", " ", "l", "i", "s", "i", "b", "l", "e">>})
    /\ cls[1].isUnusable = NothingExtracted(r, UnusableNotes)

(* C9: the band of a record is UNUSABLE exactly when the record is          *)
(* classified unusable, whatever its score_profil and profile_type.         *)
C9_UnusableBand ==
  Classified => (cls[1].bandFromScore = "UNUSABLE" <=> isUnusable(r))

\* an unusable record with the best score and a stored profile type
C9_Witness ==
  /\ Classified
  /\ isUnusable(r)
  /\ r.score_profil = Num(100)
  /\ r.profile_type # Null
  /\ cls[1].bandFromScore = "UNUSABLE"

\* the band the thresholds give a score
BandOfScore(x) ==
  IF x.kind # "num" THEN "REVIEW"
  ELSE IF x.v >= 80 THEN "A"
  ELSE IF 60 <= x.v /\ x.v <= 79 THEN "B"
  ELSE IF 40 <= x.v /\ x.v <= 59 THEN "C"
  ELSE "REVIEW"

(* C10: the band of a usable record is A for a score of 80 or more, B for   *)
(* 60 to 79, C for 40 to 59 and REVIEW below 40; a missing or non-finite    *)
(* score counts as 0 and gives REVIEW; the stored profile_type never        *)
(* changes the band.                                                        *)
C10_ScoreBands ==
  (Classified /\ ~isUnusable(r)) =>
    /\ cls[1].bandFromScore = BandOfScore(r.score_profil)
    /\ r.score_profil.kind # "num" => cls[1].bandFromScore = "REVIEW"
    /\ \A pt \in ProfileTypes :
         bandFromScore([r EXCEPT !.profile_type = pt]) = cls[1].bandFromScore

\* a usable record with a non-finite score, stored as profile type A
C10_Witness ==
  /\ Classified
  /\ ~isUnusable(r)
  /\ r.score_profil = Infinity
  /\ r.profile_type = Some(<<"A">>)
  /\ cls[1].bandFromScore = "REVIEW"

----------------------------------------------------------------------------
(* Claims about the aggregators, the filters and the sorts (SpecList) *)

Rendered == memo # Null

ScoreBands == {"A", "B", "C", "REVIEW"}

(* C11: for every record list, the empty one included, the score-derived    *)
(* aggregator of part_002 gives countA + countB + countC + countReview =    *)
(* total - unusable and usable = total - unusable: every usable record is   *)
(* counted in exactly one band and no record in two.                        *)
C11_ScoreBandCounts ==
  (variant = "part_002" /\ Rendered) =>
    LET c == memo[1]
        usableRows == { i \in DOMAIN rows : ~isUnusable(rows[i]) }
    IN  /\ c.total = Len(rows)
        /\ c.countA + c.countB + c.countC + c.countReview = c.total - c.unusable
        /\ c.usable = c.total - c.unusable
        /\ c.usable = Cardinality(usableRows)
        /\ \A i \in usableRows :
             Cardinality({ b \in ScoreBands : bandFromScore(rows[i]) = b }) = 1
        /\ rows = <<>> =>
             c.total = 0 /\ c.unusable = 0 /\ c.usable = 0 /\ c.countA = 0
             /\ c.countB = 0 /\ c.countC = 0 /\ c.countReview = 0

\* a list of an unusable record with a score and a usable record of band A
C11_Witness ==
  /\ variant = "part_002" /\ Rendered
  /\ rows = << RowUnreadable, RowBob >>
  /\ memo[1].unusable = 1 /\ memo[1].countA = 1 /\ memo[1].countC = 0

\* the per-band counts of a stored-label aggregate add up to its usable rows
LabelsAddUp(byProfile, total, unusable) ==
  byProfile.A + byProfile.B + byProfile.C + byProfile.A_REVOIR = total - unusable

(* C12: for every record list, the stored-label aggregators (computeStats   *)
(* of components/Dashboard.tsx and app/page.tsx, the computed stats of      *)
(* part_001) give per-band counts A + B + C + REVIEW that add up to total   *)
(* minus the unusable count, whatever the stored profile_type values are.   *)
C12_LabelCountsAddUp ==
  Rendered =>
    /\ variant = "Dashboard" =>
         LET st == memo[1].stats
         IN  st.countA + st.countB + st.countC + st.countReview
               = st.total - st.invalid
    /\ variant = "part_001" =>
         LET c == memo[1].computed
         IN  /\ LabelsAddUp(c.byProfile, c.total, c.unusableCount)
             /\ LabelsAddUp(c.target.byProfile, c.target.total, c.target.unusableCount)
             /\ LabelsAddUp(c.english.byProfile, c.english.total, c.english.unusableCount)

\* the rows a render shows
Shown ==
  IF variant = "part_001" THEN memo[1].visibleRows
  ELSE IF variant = "part_002" THEN memo[1].filtered
  ELSE memo[1].filteredAll

\* the rows a render starts from
Listed == IF variant = "Dashboard" THEN allCandidates ELSE rows

HasScore(row) == row.score_profil.kind # "null"

(* C16: sorting by score descending gives non-increasing scores when a      *)
(* missing score is read as -1, with every record without score after       *)
(* every record that has one (score 0 included), in part_001, part_002 and  *)
(* components/Dashboard.tsx.                                                *)
C16_ScoreDescending ==
  (Rendered /\ sortKey = "score_desc") =>
    \A i, j \in DOMAIN Shown :
      i < j =>
        /\ orElse(Shown[i].score_profil, -1) >= orElse(Shown[j].score_profil, -1)
        /\ ~(~HasScore(Shown[i]) /\ HasScore(Shown[j]))

\* the filter and sort of the variant, under the settings of the state
FilterStep(list) ==
  IF variant = "part_001"
  THEN P1_visibleRows(list, tab, hideUnusable, search, profileFilter, sortKey)
  ELSE IF variant = "part_002"
  THEN P2_filtered(list, hideUnusable, search, profileFilter, sortKey)
  ELSE filterRows(list, search, profileFilter, hideUnusable, sortKey)

\* the filter of the variant alone, before its sort
FilterOnly(list) ==
  IF variant = "part_001"
  THEN P1_filter(list, tab, hideUnusable, search, profileFilter)
  ELSE IF variant = "part_002"
  THEN P2_filter(list, hideUnusable, search, profileFilter)
  ELSE D_filter(list, search, profileFilter, hideUnusable)

\* a is b with some elements left out, in the order of b
RECURSIVE IsSubList(_, _)
IsSubList(a, b) ==
  IF a = <<>> THEN TRUE
  ELSE IF b = <<>> THEN FALSE
  ELSE IF Head(a) = Head(b) THEN IsSubList(Tail(a), Tail(b))
  ELSE IsSubList(a, Tail(b))

\* a and b hold the same records the same number of times
SameRecords(a, b) ==
  \A x \in ListRecords : CountIf(a, LAMBDA y : y = x) = CountIf(b, LAMBDA y : y = x)

(* C17: filtering is idempotent: applying the filter step to its own output *)
(* under the same settings returns the same list; the output holds records  *)
(* of the input only (the filtered rows are a sub-list of the input, shown  *)
(* in sorted order) and every record of it passes all active predicates.    *)
C17_FilterIdempotent ==
  Rendered =>
    /\ FilterStep(Shown) = Shown
    /\ IsSubList(FilterOnly(Listed), Listed)
    /\ SameRecords(Shown, FilterOnly(Listed))
    /\ \A i \in DOMAIN Shown : FilterOnly(<< Shown[i] >>) = << Shown[i] >>

\* a search of part_001 that keeps one of two rows
C17_Witness ==
  /\ variant = "part_001" /\ Rendered
  /\ rows = << RowCarl, RowAlice >>
  /\ search # <<>> /\ hideUnusable /\ sortKey = "score_desc"
  /\ Shown = << RowAlice >>

----------------------------------------------------------------------------
(* Claims about the stored label and the subsets (SpecSubsets) *)

Derived == variant = "subsets" /\ cls # Null

\* the band the stored-label normaliser is specified to give: A, B, C,
\* REVIEW, or NONE for the no-band value
LabelBand(profile_type) ==
  LET v == toLowerCase(StringOrEmpty(profile_type))
  IN  IF v = <<"a">> THEN "A"
      ELSE IF v = <<"b">> THEN "B"
      ELSE IF v = <<"c">> THEN "C"
      ELSE IF includes(v, <<"r", "e", "v", "o", "i", "r">>) \/ includes(v, <<"r", "e", "v", "i", "e", "w">>) THEN "REVIEW"
      ELSE "NONE"

\* the bands as toProfileFilter and normalizeProfile name them
P1_BandName(band) ==
  IF band = "REVIEW" THEN "A_REVOIR" ELSE IF band = "NONE" THEN "ALL" ELSE band
DC_BandName(band) ==
  IF band = "NONE" THEN Null
  ELSE IF band = "REVIEW" THEN Some(<<"<A-grave>", " ", "r", "e", "v", "o", "i", "r">>)
  ELSE Some(<<band>>)
D_BandName(band) == IF band = "REVIEW" THEN "review" ELSE band

(* C13: the stored-label normaliser maps profile_type case-insensitively:   *)
(* a/b/c to A/B/C, every value containing "revoir" or "review" to the       *)
(* REVIEW band, every other value to the no-band value; the band filter     *)
(* uses the same mapping. Stated of toProfileFilter, normalizeProfile and   *)
(* matchesProfileFilter.                                                    *)
C13_LabelNormaliser ==
  Derived =>
    LET band == LabelBand(r.profile_type)
    IN  /\ cls[1].toProfileFilter = P1_BandName(band)
        /\ cls[1].normalizeProfile = DC_BandName(band)
        /\ \A b \in {"A", "B", "C", "REVIEW"} :
             cls[1].matchesProfileFilter[D_BandName(b)] <=> (band = b)

\* Master, Data Science, 4 years
IsMasterDataFour(row) ==
  /\ row.degree_level = Some(<<"M", "a", "s", "t", "e", "r">>)
  /\ row.field_of_study = Some(<<"D", "a", "t", "a", " ", "S", "c", "i", "e", "n", "c", "e">>)
  /\ row.total_experience_years = Num(4)

(* C14: the target-profile predicate does not depend on English ability:    *)
(* records that differ only in speaks_english and english_level get the     *)
(* same result; Master / Data Science / 4 years is a target profile         *)
(* whatever its English fields; under 3 years or unknown is never one.      *)
(* Stated of looksTargetProfile and isTargetProfile.                        *)
C14_TargetIgnoresEnglish ==
  Derived =>
    /\ \A se \in SpeaksEnglish, el \in EnglishLevels :
         LET other == [r EXCEPT !.speaks_english = se, !.english_level = el]
         IN  /\ looksTargetProfile(other) = cls[1].looksTargetProfile
             /\ isTargetProfile(other) = cls[1].isTargetProfile
    /\ IsMasterDataFour(r) => cls[1].looksTargetProfile /\ cls[1].isTargetProfile
    /\ orElse(r.total_experience_years, 0) < 3 =>
         ~cls[1].looksTargetProfile /\ ~cls[1].isTargetProfile

\* the English-CV subset as specified
IsEnglishLanguage(cv_language) ==
  LET lang == toLowerCase(StringOrEmpty(cv_language))
  IN  \/ lang = <<"e", "n">>
      \/ startsWith(lang, <<"e", "n", "-">>)
      \/ includes(lang, <<"e", "n", "g", "l", "i", "s", "h">>)
      \/ includes(lang, <<"a", "n", "g", "l", "a", "i", "s">>)

(* C15: a record is in the English-CV subset exactly when its cv_language,  *)
(* lowercased, equals "en", starts with "en-" or contains "english" or      *)
(* "anglais", in every place that computes the subset: isEnglishCv of       *)
(* part_002, isEnglishCv of DashboardClient.tsx, the inline filters of      *)
(* part_001.                                                                *)
C15_EnglishSubset ==
  Derived =>
    /\ cls[1].isEnglishCv = IsEnglishLanguage(r.cv_language)
    /\ cls[1].DC_isEnglishCv = IsEnglishLanguage(r.cv_language)
    /\ cls[1].P1_isEnglish = IsEnglishLanguage(r.cv_language)

----------------------------------------------------------------------------
(* Claims about the CV modal (SpecCv) *)

\* the reference without one leading "cvs/"
WithoutBucket(ref) ==
  IF Len(ref) >= 4 /\ SubSeq(ref, 1, 4) = <<"c", "v", "s", "/">>
  THEN SubSeq(ref, 5, Len(ref)) ELSE ref

(* C18: createSignedUrlIfNeeded returns an absolute http(s) reference       *)
(* unchanged without calling the file store; for any other non-empty        *)
(* reference it strips one leading "<bucket>/" if present and asks the      *)
(* bucket for a signed URL of the remaining path with an expiry of 900      *)
(* seconds, returning the signed URL on success and null on a signing       *)
(* error; every open asks again, nothing is cached.                         *)
C18_SignedUrl ==
  \A i \in DOMAIN cvCalls :
    LET c == cvCalls[i]
    IN  /\ isHttpUrl(c.ref) => c.req = Null /\ c.result = Some(c.ref)
        /\ (c.ref # <<>> /\ ~isHttpUrl(c.ref)) =>
             /\ c.req = Some([bucket |-> <<"c", "v", "s">>, path |-> WithoutBucket(c.ref),
                              expiresIn |-> 900])
             /\ c.outcome = "signed" => c.result = Some(signedUrl(c.req[1]))
             /\ c.outcome = "error" => c.result = Null
             /\ c.outcome \in {"pending", "signed", "error", "threw"}

\* the same reference, with the bucket name twice in front, opened twice:
\* signed the first time, asked for again the second time
C18_Witness ==
  /\ Len(cvCalls) = 2
  /\ cvCalls[1].ref = <<"c", "v", "s", "/", "c", "v", "s", "/", "a", ".", "p", "d", "f">> /\ cvCalls[2].ref = cvCalls[1].ref
  /\ cvCalls[1].outcome = "signed"
  /\ cvCalls[1].req[1].path = <<"c", "v", "s", "/", "a", ".", "p", "d", "f">>
  /\ cvCalls[2].req # Null
  /\ cvUrl = Null /\ cvLoading

(* C19: the CV view moves along CLOSED -> LOADING -> SHOWING_LINK or        *)
(* SHOWING_ERROR -> CLOSED only: in every reachable state a closed view     *)
(* has cvLoading = false and cvUrl = null, and a link or an error is shown  *)
(* only after the loading of the currently open row has finished.           *)
C19_CvViewStates ==
  /\ ~cvOpen => (cvLoading = FALSE /\ cvUrl = Null)
  /\ (cvOpen /\ ~cvLoading) => Len(cvCalls) \notin opens

\* a step in which the resolution of an openCv call fails
CvFails ==
  \E i \in DOMAIN cvCalls' :
    /\ cvCalls'[i].outcome \in {"missing", "error", "threw"}
    /\ i \in DOMAIN cvCalls => cvCalls[i].outcome = "pending"

(* C20: every openCv call whose resolution fails (no cv_url and no          *)
(* file_name, a signing error, a signing call that throws) ends in the      *)
(* cannot-open state cvOpen = true, cvLoading = false, cvUrl = null; rows,  *)
(* filters and the fetch error message are unchanged by the failure.        *)
C20_CannotOpenState ==
  [][ CvFails =>
        /\ cvOpen' = TRUE /\ cvLoading' = FALSE /\ cvUrl' = Null
        /\ UNCHANGED <<rows, filterVars, tab, errorMsg>> ]_vars

\* the link the claim expects for a reference: the reference itself when it
\* is absolute, otherwise the signed URL of its path in the bucket
LinkOf(ref) ==
  IF isHttpUrl(ref) THEN ref
  ELSE signedUrl([bucket |-> <<"c", "v", "s">>, path |-> WithoutBucket(ref), expiresIn |-> 900])

(* C21: link resolutions for different rows do not interact: whenever the   *)
(* CV view is open and shows a link, that link is the one resolved for the  *)
(* row the view was last opened for (the row whose title it shows), even    *)
(* when the view of an earlier row was closed while its signing request     *)
(* was in flight and that response arrives before or after the later one.   *)
C21_LinkOfShownRow ==
  (cvOpen /\ cvUrl # Null) =>
    /\ cvCalls # <<>>
    /\ cvUrl = Some(LinkOf(cvCalls[Len(cvCalls)].ref))

----------------------------------------------------------------------------
(* Claims about the HTTP gate (SpecGate) *)

\* the gate answered with status 401 and the challenge naming the realm
Challenged ==
  /\ res[1].kind = "response"
  /\ res[1].status = Some(401)
  /\ res[1].challenge = Some("Basic realm=<quote>CV Dashboard<quote>")

\* the header is "Basic " followed by the base64 text of user ":" password
\* for the configured user and password
ExactCredentials ==
  /\ req.authorization # Null
  /\ env.BASIC_AUTH_USER # Null /\ env.BASIC_AUTH_PASSWORD # Null
  /\ startsWith(req.authorization[1], <<"B", "a", "s", "i", "c", " ">>)
  /\ LET decoded == atob(SubSeq(req.authorization[1], 7, Len(req.authorization[1])))
     IN  /\ ~decoded.threw
         /\ decoded.value = env.BASIC_AUTH_USER[1] \o <<":">> \o env.BASIC_AUTH_PASSWORD[1]

(* C22: the gate lets a request through only if its Authorization header    *)
(* uses the Basic scheme and decodes to exactly the configured user and     *)
(* password; every other request on a protected route (no header, other     *)
(* scheme, wrong user, wrong password, password with extra ":"-separated    *)
(* text, undecodable credentials) receives 401 with the challenge naming    *)
(* the realm.                                                               *)
C22_ExactCredentialsOnly ==
  (res # Null /\ matcher(req.path)) =>
    /\ res[1].kind = "next" => ExactCredentials
    /\ ~ExactCredentials => Challenged

\* an option of process.env is unset or empty
Unset(v) == v = Null \/ v = Some(<<>>)

(* C30: the gate fails closed: when BASIC_AUTH_USER or BASIC_AUTH_PASSWORD  *)
(* is unset or empty every request on a protected route receives 401,       *)
(* whatever its Authorization header, and under every configuration a       *)
(* request without an Authorization header receives 401.                    *)
C30_GateFailsClosed ==
  (res # Null /\ matcher(req.path)) =>
    /\ (Unset(env.BASIC_AUTH_USER) \/ Unset(env.BASIC_AUTH_PASSWORD)) => Challenged
    /\ req.authorization = Null => Challenged

\* user and password are set to the empty string and the request carries
\* the credentials ":" (empty user, empty password): it is challenged
C30_Witness ==
  /\ res # Null
  /\ req.path = <<"/">>
  /\ env.BASIC_AUTH_USER = Some(<<>>) /\ env.BASIC_AUTH_PASSWORD = Some(<<>>)
  /\ req.authorization = Some(<<"B", "a", "s", "i", "c", " ", "O", "g", "=", "=">>)
  /\ Challenged

----------------------------------------------------------------------------
(* Claims about the data store options (SpecConfig) *)

(* C23: when the data store endpoint or its access key is absent no data    *)
(* store request is ever issued: the view-backed Dashboard renders the      *)
(* configuration-missing screen at most, creates no client and starts no    *)
(* fetch, and the admin client module, once loaded, has thrown and exports  *)
(* no client.                                                               *)
C23_FailsFastWithoutStoreOptions ==
  /\ (Unset(env.NEXT_PUBLIC_SUPABASE_URL) \/ Unset(env.NEXT_PUBLIC_SUPABASE_ANON_KEY)) =>
       /\ client = Null
       /\ seq = 0 /\ fetches = {}
       /\ screen \in {"none", "config"}
  /\ ( \/ (Unset(env.NEXT_PUBLIC_SUPABASE_URL) /\ Unset(env.SUPABASE_URL))
       \/ (Unset(env.SUPABASE_SERVICE_ROLE_KEY) /\ Unset(env.SUPABASE_SERVICE_ROLE)) ) =>
       (admin # Null => (admin[1].threw /\ admin[1].supabaseAdmin = Null))

\* the URL is set but no key is: the Dashboard has rendered the
\* configuration-missing screen and the admin client module has thrown
C23_Witness ==
  /\ env.NEXT_PUBLIC_SUPABASE_URL # Null /\ env.NEXT_PUBLIC_SUPABASE_URL # Some(<<>>)
  /\ env.NEXT_PUBLIC_SUPABASE_ANON_KEY = Null
  /\ env.SUPABASE_SERVICE_ROLE_KEY = Null /\ env.SUPABASE_SERVICE_ROLE = Null
  /\ screen = "config" /\ lot = "LOT2"
  /\ admin # Null /\ admin[1].threw
  /\ client = Null /\ seq = 0

----------------------------------------------------------------------------
(* Claims about retries and the loading flag (SpecFetchers, Spec) *)

\* no request of a log is issued twice
NoRepeat(log) ==
  \A i, j \in DOMAIN log :
    i # j => <<log[i].view, log[i].from, log[i].to>> # <<log[j].view, log[j].from, log[j].to>>

\* a step in which a fetch function is invoked
FetchStarts == seq' = seq + 1

(* C24: nothing is retried automatically: no request is issued twice       *)
(* within one invocation of a fetch function; an invocation of a paginated *)
(* fetcher whose page request failed has ended and issues nothing more;    *)
(* a request is issued only by an invocation in flight or by a step that   *)
(* starts a fetch (mount, refresh, lot change, tab change); the error      *)
(* message is cleared only by the start of a fetch, and every start        *)
(* clears it.                                                              *)
C24_NoAutomaticRetry ==
  [][ /\ \A log \in Logs' : NoRepeat(log)
      /\ \A g \in fetches' :
           /\ variant \in {"part_001", "part_002"} =>
                \A i \in DOMAIN g.log : g.log[i].got # Failed
           /\ \/ \E f \in fetches : f.id = g.id
              \/ FetchStarts /\ g.id = seq'
      /\ (fetches = {} /\ fetches' # {}) => FetchStarts
      /\ (errorMsg # Null /\ errorMsg' = Null) => FetchStarts
      /\ FetchStarts => errorMsg' = Null ]_vars

\* the second page request of an invocation of part_001 has failed: the
\* invocation has ended, the error message is shown and nothing is in flight
C24_Witness ==
  /\ variant = "part_001"
  /\ ended.pc = "failed"
  /\ Len(ended.log) = 2 /\ ended.log[2].got = Failed
  /\ fetches = {}
  /\ errorMsg # Null /\ loading = FALSE

(* C26: whenever at least one fetch is in flight the loading flag is true. *)
C26_LoadingWhileInFlight == (fetches # {}) => (loading = TRUE)

(* C27: in part_001, whenever no fetch is in flight every record in rows   *)
(* has cv_batch equal to the currently selected lot.                       *)
C27_RowsOfSelectedLot ==
  (variant = "part_001" /\ fetches = {}) =>
    \A i \in DOMAIN rows : cv_batch(rows[i]) = lot

----------------------------------------------------------------------------
(* Claims about the filter bar and the stat cards (specification SpecFilter) *)

\* part_001: statsForTab, the stats of the cards under tab t
statsForTab(computed, t) ==
  IF t = "target" THEN computed.target
  ELSE IF t = "english" THEN computed.english
  ELSE [ total |-> computed.total,
         usableCount |-> computed.usableCount,
         unusableCount |-> computed.unusableCount,
         byProfile |-> computed.byProfile ]

\* the counts on the stat cards of the last render
Stats ==
  IF variant = "part_001" THEN statsForTab(memo[1].computed, tab)
  ELSE IF variant = "part_002"
  THEN [ total |-> memo[1].total, usable |-> memo[1].usable,
         unusable |-> memo[1].unusable, countA |-> memo[1].countA,
         countB |-> memo[1].countB, countC |-> memo[1].countC,
         countReview |-> memo[1].countReview ]
  ELSE memo[1].stats

\* the rows of the table of the last render
ShownRows ==
  IF variant = "part_001" THEN memo[1].visibleRows
  ELSE IF variant = "part_002" THEN memo[1].filtered
  ELSE memo[1].filteredAll

(* C25: a change of the search text, of the band/profile filter, of the     *)
(* hide-unusable toggle or of the sort key, the tab staying the same,       *)
(* changes no count of the stat cards and leaves the stored record lists    *)
(* (contents and order) as they were.                                       *)
C25_StatsIgnoreFilters ==
  [][ (memo # Null /\ memo' # Null /\ filterVars' # filterVars /\ tab' = tab)
        => /\ Stats' = Stats
           /\ UNCHANGED <<rows, allCandidates, profilCible, cvAnglais>> ]_vars

\* part_002 after a filter change that hides rows the cards still count
C25_Witness ==
  /\ variant = "part_002"
  /\ memo # Null
  /\ profileFilter # "ALL" /\ hideUnusable /\ sortKey = "score_desc"
  /\ Stats.total = 2
  /\ Stats.unusable = 1
  /\ Len(ShownRows) = 0

----------------------------------------------------------------------------
(* Claims about the stat cards and the table (specification SpecList) *)

\* the count on the card of band X in the last render
CardCount(X) ==
  IF variant = "part_001" THEN Stats.byProfile[X]
  ELSE IF X = "A" THEN Stats.countA
  ELSE IF X = "B" THEN Stats.countB
  ELSE IF X = "C" THEN Stats.countC
  ELSE IF X = "UNUSABLE" THEN Stats.unusable
  ELSE Stats.countReview

(* C28: with empty search text and the hide-unusable toggle off, the number *)
(* of rows displayed once the card of band X is selected equals the count   *)
(* on X's card, for every record list and every band offered as a card.     *)
C28_CardCountsShownRows ==
  (memo # Null /\ search = <<>> /\ ~hideUnusable /\ profileFilter \notin {"ALL", "all"})
    => Len(ShownRows) = CardCount(profileFilter)

----------------------------------------------------------------------------
(* Claims about part_001's lot changes and refreshes (specification SpecP1) *)

\* the invocation a step starts, if any
Started == { f \in fetches' : f.id = seq + 1 /\ f \notin fetches }

(* C29: in part_001 a change of lot sets tab = all, search = empty,         *)
(* profileFilter = ALL, hideUnusable = false and sortKey = name and starts  *)
(* a fetch for the new lot; a refresh starts a fetch for the current lot    *)
(* and leaves tab, search, profileFilter, hideUnusable, sortKey and the     *)
(* state of the CV modal as they were.                                      *)
C29_LotChangeResetsRefreshKeeps ==
  [][ /\ (lot' # lot) =>
           /\ tab' = "all"
           /\ search' = <<>>
           /\ profileFilter' = "ALL"
           /\ hideUnusable' = FALSE
           /\ sortKey' = "name"
           /\ \E f \in Started : f.batch = lot' /\ f.from = 0
      /\ (Mounted /\ lot' = lot /\ seq' # seq) =>
           /\ \E f \in Started : f.batch = lot
           /\ UNCHANGED <<tab, filterVars, cvVars>> ]_vars

\* the lot has changed to LOT2 while the CV modal was open: the fetch for
\* LOT2 is in flight, the one for LOT1 has ended, and the tab and the filter
\* bar are in their reset state
C29_Witness ==
  /\ variant = "part_001"
  /\ lot = "LOT2"
  /\ seq = 2
  /\ ended.id = 1 /\ ended.batch = "LOT1" /\ ended.pc = "done"
  /\ \E f \in fetches : f.id = 2 /\ f.batch = "LOT2" /\ f.from = 0
  /\ Len(rows) = 1
  /\ cvOpen
  /\ tab = "all" /\ search = <<>> /\ profileFilter = "ALL" /\ ~hideUnusable /\ sortKey = "name"

============================================================================
